---- MODULE Spec2Model ----
(***************************************************************************)
(* ts-joi-schema-generator: the two-phase schema compiler.                 *)
(*                                                                         *)
(* SchemaProgram.compile visits every root file (phase one): each          *)
(* statement of a file is compiled and written to the file's               *)
(* BaseSchemaBuilder (the File Schema), imports and re-exports pulling in  *)
(* the files they name.  Then finalize() runs on every File Schema and     *)
(* render() on every File Schema (phase two); main() writes the results.   *)
(*                                                                         *)
(* The TypeScript checker is the oracle: a declaration statement of the    *)
(* input carries what the oracle and the type compiler make of it (the     *)
(* compiled SchemaType tree, or the fact that compiling it throws).        *)
(***************************************************************************)
EXTENDS Integers, Sequences, FiniteSets, TLC

VARIABLES
  input,            \* the run's input: options.render, root file names, source files
  pc,               \* position of main()/SchemaProgram.compile()
  schemas,          \* SchemaProgram.schemas: the Map's keys in insertion order
  schema,           \* BaseSchemaBuilder.schema of every file (ISchema)
  referencedNames,  \* BaseSchemaBuilder.referencedNames of every file
  finalized,        \* BaseSchemaBuilder.finalized of every file
  contexts,         \* SchemaProgram.contexts: the stack of files being compiled
  rootIdx,          \* compile(): index of the next root file
  finIdx,           \* compile(): index in schemas of the next finalize()
  renIdx,           \* compile(): index in schemas of the next render()
  result,           \* compile(): ICompilationResult[] built so far
  written,          \* main(): the output files written by fs.outputFile
  warnings,         \* console.warn: the declarations skipped with a warning
  error,            \* the Error that ended the run ("" while none was thrown)
  visited,          \* per file, the number of its statements compiled so far
  expanded,         \* log: (file, name) of every declaration whose heritages/members/type were referenced
  uses,             \* log: (from, file, name) of every SchemaProgram.use call
  rendered,         \* log: the files whose render() has been called
  indentation,      \* JoiSchemaBuilder/YupSchemaBuilder.indentation of every file
  renderContexts,   \* depth of the renderer's contexts stack of every file
  tsType,           \* compileType: the ts.Type the checker hands to compileTsType
  ignoreRef,        \* compileType: the name of the alias being declared ("" if none)
  strictNullChecks, \* SchemaProgram.strictNullChecks
  schemaType        \* compileType: the SchemaType compileTsType returned

vars == <<input, pc, schemas, schema, referencedNames, finalized, contexts,
          rootIdx, finIdx, renIdx, result, written, warnings, error, visited,
          expanded, uses, rendered, indentation, renderContexts,
          tsType, ignoreRef, strictNullChecks, schemaType>>

typeVars == <<tsType, ignoreRef, strictNullChecks, schemaType>>

(***************************************************************************)
(* Bounds of the model.                                                    *)
(***************************************************************************)
\* Nested use() frames the engine's call stack holds before a RangeError.
StackLimit == 8

(***************************************************************************)
(* Universe: file paths (without extension) and declaration names.         *)
(***************************************************************************)
Files == {"a", "b", "c", "gen-schema"}
Names == {"D", "X", "Y", "Z", "U"}

NoError == ""
\* `file?: string` of an IExportDeclaration that has no module specifier.
NoFile == [marker |-> "", path |-> ""]
\* A module specifier: './<path>' carries the relative-path marker.
Rel(p) == [marker |-> ".", path |-> p]
Pkg(p) == [marker |-> "", path |-> p]

Min(S) == CHOOSE m \in S : \A n \in S : m <= n

(***************************************************************************)
(* SchemaType constructors (BaseSchemaBuilder.ts, SchemaType).  `required` *)
(* is "true", "false" or "undefined".                                      *)
(***************************************************************************)
Leaf(t) == [type |-> t, required |-> "true"]
TypeReference(n) == [type |-> "type-reference", name |-> n, required |-> "true"]
TypeAccess(n, a) == [type |-> "type-access", name |-> n, access |-> a, required |-> "true"]
\* IArraySchemaType.of is a single node: field elem.
ArrayOf(t) == [type |-> "array", elem |-> t, required |-> "true"]
ObjectOf(ms) == [type |-> "object", members |-> ms, required |-> "true"]
\* ITupleSchemaType.restElement is optional: a sequence of zero or one node.
TupleOf(ts, rest) == [type |-> "tuple", of |-> ts, restElement |-> rest, required |-> "true"]
UnionOf(ts) == [type |-> "union", of |-> ts, required |-> "true"]
IntersectionOf(ts) == [type |-> "intersection", of |-> ts, required |-> "true"]
Member(n, t) == [name |-> n, type |-> t, indexer |-> ""]

EmptySchema == [exports |-> <<>>, imports |-> <<>>, interfaces |-> <<>>,
                types |-> <<>>, enums |-> <<>>]

(***************************************************************************)
(* The Declaration Graph & Usage Tracker (BaseSchemaBuilder).  The         *)
(* operators thread a record st through the calls:                         *)
(*   st.schemas, st.schema, st.finalized   read                            *)
(*   st.referencedNames                    written                         *)
(*   st.err                                the exception in flight         *)
(*   st.expanded, st.uses                  logs                            *)
(***************************************************************************)
FindDeclaration(decls, name) ==
  LET idx == {i \in DOMAIN decls : decls[i].name = name}
  IN IF idx = {} THEN <<>> ELSE <<decls[Min(idx)]>>

\* binding.bound || binding.name
BoundOrName(binding) == IF binding.bound # "" THEN binding.bound ELSE binding.name

\* path.join(path.dirname(this.schema.file), file): all files share one directory
ResolveSourceFile(f, file) == file.path

\* SchemaProgram.getSchema: the key `file` or `file`.ts of the Map
GetSchema(st, file) ==
  IF \E i \in DOMAIN st.schemas : st.schemas[i] = file THEN <<file>> ELSE <<>>

RECURSIVE FilterDeclarations(_, _)
\* .map(filter bindings by referencedNames).filter(namedBindings.length > 0)
FilterDeclarations(decls, refs) ==
  IF decls = <<>> THEN <<>>
  ELSE LET declaration == Head(decls)
           IsUsed(binding) == binding.name \in refs
           kept == SelectSeq(declaration.namedBindings, IsUsed)
           rest == FilterDeclarations(Tail(decls), refs)
       IN IF Len(kept) > 0
          THEN <<[file |-> declaration.file, namedBindings |-> kept]>> \o rest
          ELSE rest

\* a projection that keeps every stored import declaration whole
AllImports(st, f) == st.schema[f].imports

GetUsedImports(st, f) == FilterDeclarations(st.schema[f].imports, st.referencedNames[f])

\* a projection that keeps every stored export declaration whole
AllExports(st, f) == st.schema[f].exports

GetUsedExports(st, f) == FilterDeclarations(st.schema[f].exports, st.referencedNames[f])

RECURSIVE Flatten(_)
\* the (declaration, binding) pairs of the nested loops, in loop order
Flatten(decls) ==
  IF decls = <<>> THEN <<>>
  ELSE LET declaration == Head(decls)
       IN [i \in DOMAIN declaration.namedBindings |->
             [file |-> declaration.file,
              name |-> declaration.namedBindings[i].name,
              bound |-> declaration.namedBindings[i].bound]]
          \o Flatten(Tail(decls))

HasFile(b) == b.file # NoFile

MemberTypes(members) == [i \in DOMAIN members |-> members[i].type]

\* The names use() adds before it returns: `this.referencedNames.add(name)` (l.260)
MarkName(st, f, name) == [st EXCEPT !.referencedNames[f] = @ \cup {name}]

\* `if (this.finalized)` of use() (l.240)
\* a use() that never goes to the origin file
StaysLocal(st, f) == FALSE

RoutesAcrossFiles(st, f) == st.finalized[f]

RECURSIVE Use(_, _, _, _), UseInterface(_, _, _, _), UseType(_, _, _, _),
          Reference(_, _, _, _), ReferenceAll(_, _, _, _),
          ProgramUse(_, _, _, _, _), UseBindings(_, _, _, _, _, _),
          UseAllBindings(_, _, _, _, _)

\* SchemaProgram.use(file, name), called from the File Schema `from`
ProgramUse(st, from, file, name, d) ==
  IF st.err # NoError THEN st
  ELSE LET found == GetSchema(st, file)
           st1 == [st EXCEPT !.uses = Append(@, <<from, file, name>>)]
       IN IF found # <<>>
          THEN Use(st1, found[1], name, d)
          ELSE [st1 EXCEPT !.err = "Couldn't find schema"]

\* the loops of use() over the import / export bindings (l.241-257)
UseBindings(st, f, name, bindings, i, d) ==
  IF i > Len(bindings) \/ st.err # NoError THEN st
  ELSE LET binding == bindings[i]
           st1 == IF name = binding.name /\ binding.name \notin st.referencedNames[f]
                  THEN ProgramUse(st, f, ResolveSourceFile(f, binding.file),
                                  BoundOrName(binding), d)
                  ELSE st
       IN UseBindings(st1, f, name, bindings, i + 1, d)

\* the loops of finalize() over the used bindings (l.265-278)
UseAllBindings(st, f, bindings, i, d) ==
  IF i > Len(bindings) \/ st.err # NoError THEN st
  ELSE LET binding == bindings[i]
           st1 == ProgramUse(st, f, ResolveSourceFile(f, binding.file),
                             BoundOrName(binding), d)
       IN UseAllBindings(st1, f, bindings, i + 1, d)

UseEnum(st, f, declaration) ==
  IF declaration.name \notin st.referencedNames[f]
  THEN MarkName(st, f, declaration.name)
  ELSE st

UseInterface(st, f, declaration, d) ==
  IF declaration.name \notin st.referencedNames[f]
  THEN LET st1 == [MarkName(st, f, declaration.name)
                     EXCEPT !.expanded = Append(@, <<f, declaration.name>>)]
           st2 == ReferenceAll(st1, f, declaration.heritages, d)
       IN ReferenceAll(st2, f, MemberTypes(declaration.members), d)
  ELSE st

UseType(st, f, declaration, d) ==
  IF declaration.name \notin st.referencedNames[f]
  THEN LET st1 == [MarkName(st, f, declaration.name)
                     EXCEPT !.expanded = Append(@, <<f, declaration.name>>)]
       IN Reference(st1, f, declaration.type, d)
  ELSE st

\* BaseSchemaBuilder.use(name); d counts the use() frames on the call stack
Use(st, f, name, d) ==
  IF st.err # NoError THEN st
  ELSE IF d >= StackLimit THEN [st EXCEPT !.err = "RangeError"]
  ELSE LET iface == FindDeclaration(st.schema[f].interfaces, name)
           type == FindDeclaration(st.schema[f].types, name)
           enumeration == FindDeclaration(st.schema[f].enums, name)
       IN IF iface # <<>> THEN UseInterface(st, f, iface[1], d + 1)
          ELSE IF type # <<>> THEN UseType(st, f, type[1], d + 1)
          ELSE IF enumeration # <<>> THEN UseEnum(st, f, enumeration[1])
          ELSE LET st1 == IF RoutesAcrossFiles(st, f)
                          THEN UseBindings(st, f, name, Flatten(st.schema[f].imports), 1, d + 1)
                          ELSE st
                   st2 == IF RoutesAcrossFiles(st, f)
                          THEN UseBindings(st1, f, name,
                                 SelectSeq(Flatten(st.schema[f].exports), HasFile), 1, d + 1)
                          ELSE st1
               IN IF st2.err # NoError THEN st2 ELSE MarkName(st2, f, name)

\* BaseSchemaBuilder.reference(type)
Reference(st, f, type, d) ==
  IF st.err # NoError THEN st
  ELSE CASE type.type = "array" -> Reference(st, f, type.elem, d)
         [] type.type \in {"type-access", "type-reference"} ->
              IF type.name \notin st.referencedNames[f]
              THEN LET st1 == Use(st, f, type.name, d)
                   IN IF st1.err # NoError THEN st1 ELSE MarkName(st1, f, type.name)
              ELSE st
         [] type.type = "object" -> ReferenceAll(st, f, MemberTypes(type.members), d)
         [] type.type \in {"tuple", "union", "intersection"} ->
              ReferenceAll(st, f, type.of, d)
         [] OTHER -> st

ReferenceAll(st, f, types, d) ==
  IF types = <<>> \/ st.err # NoError THEN st
  ELSE ReferenceAll(Reference(st, f, Head(types), d), f, Tail(types), d)

\* BaseSchemaBuilder.finalize(), up to `this.finalized = true`
FinalizeBuilder(st, f) ==
  LET imports == GetUsedImports(st, f)
      st1 == UseAllBindings(st, f, Flatten(imports), 1, 0)
      exports == GetUsedExports(st1, f)
  IN UseAllBindings(st1, f, SelectSeq(Flatten(exports), HasFile), 1, 0)

\* writeImport / writeExport
WriteImport(st, f, declaration) ==
  [st EXCEPT !.schema[f].imports = Append(@, declaration)]

WriteExport(st, f, declaration) ==
  [st EXCEPT !.schema[f].exports = Append(@, declaration)]

\* a writeInterface that records only what it is asked to render
WriteInterfaceIfRendered(st, f, declaration, shouldRender) ==
  IF shouldRender
  THEN UseInterface([st EXCEPT !.schema[f].interfaces = Append(@, declaration)],
                    f, declaration, 0)
  ELSE st

\* writeInterface / writeType / writeEnum
WriteInterface(st, f, declaration, shouldRender) ==
  LET st1 == [st EXCEPT !.schema[f].interfaces = Append(@, declaration)]
  IN IF shouldRender THEN UseInterface(st1, f, declaration, 0) ELSE st1

WriteType(st, f, declaration, shouldRender) ==
  LET st1 == [st EXCEPT !.schema[f].types = Append(@, declaration)]
  IN IF shouldRender THEN UseType(st1, f, declaration, 0) ELSE st1

WriteEnum(st, f, declaration, shouldRender) ==
  LET st1 == [st EXCEPT !.schema[f].enums = Append(@, declaration)]
  IN IF shouldRender THEN UseEnum(st1, f, declaration) ELSE st1

(***************************************************************************)
(* The Dialect Renderers (JoiSchemaBuilder, YupSchemaBuilder).  Rendered   *)
(* text is a sequence of tokens [t, v]: t = "text" for literal text,       *)
(* "lazy" for `lazy(() => <v>Schema)`, "access" for a lazy member access,  *)
(* "concat" for `.concat(<v>Schema)`.  A render that throws yields Throws. *)
(***************************************************************************)
Tok(t, v) == [t |-> t, v |-> v]
Ok(toks) == [throws |-> FALSE, toks |-> toks]
Throws == [throws |-> TRUE, toks |-> <<>>]
Cat(a, b) == IF a.throws \/ b.throws THEN Throws ELSE Ok(a.toks \o b.toks)
Text(v) == Ok(<<Tok("text", v)>>)

IsJoi(render) == render \in {"joi", "joi-15"}

\* JoiSchemaBuilder.renderTuple renders; YupSchemaBuilder.renderTuple throws 'Tuple not supported'
RendersTuple(render) == IsJoi(render)

\* The node kinds whose render* method throws, per dialect
Unsupported(render, type) ==
  IF IsJoi(render)
  THEN \/ type.type \in {"bigint", "intersection"}
       \/ type.type = "literal" /\ type.valueType = "object"
  ELSE \/ type.type \in {"func", "buffer", "symbol", "never", "union", "bigint", "intersection"}
       \/ type.type = "tuple" /\ ~RendersTuple(render)

\* a reference rendered as a direct use of the identifier
RenderDirectReference(type) == Ok(<<Tok("concat", type.name)>>)

\* renderTypeReference: `lazy(() => ${this.toSchemaName(type.name)})`
RenderTypeReference(type) == Ok(<<Tok("lazy", type.name)>>)

\* renderTypeAccess: `lazy(() => ${this.getAccessName(type.name, type.access)})`
RenderTypeAccess(type) == Ok(<<Tok("access", type.name)>>)

\* renderInterface: heritage.type === 'type-reference' ? `.concat(${name})` : ''
RenderHeritage(heritage) ==
  IF heritage.type = "type-reference" THEN <<Tok("concat", heritage.name)>> ELSE <<>>

\* members.find((member) => member.indexer)
FindIndexer(members) ==
  LET idx == {i \in DOMAIN members : members[i].indexer # ""}
  IN IF idx = {} THEN <<>> ELSE <<members[Min(idx)]>>

RECURSIVE FlattenHeritage(_)
FlattenHeritage(heritages) ==
  IF heritages = <<>> THEN <<>>
  ELSE RenderHeritage(Head(heritages)) \o FlattenHeritage(Tail(heritages))

\* ''.padEnd(n * 2, ' '): the padding of nesting level n
Spaces == <<"  ", "    ", "      ", "        ", "          ", "            ",
            "              ", "                ">>
Padding(n) == IF n <= 0 THEN "" ELSE Spaces[Min({n, Len(Spaces)})]

\* The renderer at work: the text written so far (toks), the nesting counter
\* (ind), the depth of the render-context stack (ctx), and whether a render*
\* method has thrown.  A throw unwinds: nothing after it runs.
\* (The renderer is passed on as a value: The({e(v) : v \in {w}}) is e(w).)
The(S) == CHOOSE x \in S : TRUE
Begin(ind, ctx) == [throws |-> FALSE, toks |-> <<>>, ind |-> ind, ctx |-> ctx]
Emit(w, piece) ==
  The({IF v.throws THEN v
       ELSE IF piece.throws THEN [v EXCEPT !.throws = TRUE, !.toks = <<>>]
       ELSE [v EXCEPT !.toks = @ \o piece.toks] : v \in {w}})
Fail(w) == Emit(w, Throws)

\* indent() / indent(offset): the padding of the current nesting level
Pad(w, offset) == The({Emit(v, Text(Padding(v.ind + offset))) : v \in {w}})

\* indent(func): this.indentation++ before func() ...
IndentIn(w) == The({IF v.throws THEN v ELSE [v EXCEPT !.ind = @ + 1] : v \in {w}})

\* a nesting counter that is never lowered again
IndentKept(w) == w

\* ... and this.indentation-- after it, skipped when func() throws
IndentOut(w) == The({IF v.throws THEN v ELSE [v EXCEPT !.ind = @ - 1] : v \in {w}})

\* this.contexts.push(...) before renderRule, this.contexts.pop() after it
PushContext(w) == The({IF v.throws THEN v ELSE [v EXCEPT !.ctx = @ + 1] : v \in {w}})
PopContext(w) == The({IF v.throws THEN v ELSE [v EXCEPT !.ctx = @ - 1] : v \in {w}})

\* The template string a render* method returns, piece by piece in the order
\* JavaScript evaluates it: literal text, indent(offset) padding, a nested
\* renderSchemaType call (inside indent(() => ...) or not), or a throw.
Piece(piece, toks, offset, of, indent) ==
  [piece |-> piece, toks |-> toks, offset |-> offset, of |-> of, indent |-> indent]
Written(v) == Piece("text", v.toks, 0, <<>>, FALSE)
Padded(offset) == Piece("pad", <<>>, offset, <<>>, FALSE)
Nested(type) == Piece("schema", <<>>, 0, <<type>>, FALSE)
Indented(type) == Piece("schema", <<>>, 0, <<type>>, TRUE)
Thrown == Piece("throw", <<>>, 0, <<>>, FALSE)

RECURSIVE RenderList(_), RenderProperties(_)

\* renderTypeListItem over a list: padding, then the item one level deeper
RenderList(types) ==
  IF types = <<>> THEN <<>>
  ELSE <<Padded(0), Indented(Head(types)), Written(Text(","))>> \o RenderList(Tail(types))

\* renderMember over the members: an indexer member renders ''
RenderProperties(members) ==
  IF members = <<>> THEN <<>>
  ELSE LET member == Head(members)
           one == IF member.indexer # "" THEN <<>>
                  ELSE <<Padded(0), Written(Text(member.name)), Indented(member.type),
                         Written(Text(","))>>
       IN one \o RenderProperties(Tail(members))

\* renderMembers followed by renderIndexer (Dialect Y throws on an indexer)
RenderMembers(render, members) ==
  IF Len(members) > 0
  THEN LET indexer == FindIndexer(members)
           pattern == IF indexer = <<>> THEN <<>>
                      ELSE IF IsJoi(render)
                           THEN <<Written(Text("pattern")), Nested(indexer[1].type)>>
                           ELSE <<Thrown>>
       IN RenderProperties(members) \o <<Padded(-1), Written(Text("})"))>> \o pattern
  ELSE <<>>

\* renderRule: the dispatch over the IR variant
RenderRule(render, type) ==
  IF Unsupported(render, type) THEN <<Thrown>>
  ELSE CASE type.type = "type-reference" -> <<Written(RenderTypeReference(type))>>
         [] type.type = "type-access" -> <<Written(RenderTypeAccess(type))>>
         [] type.type = "object" ->
              <<Written(Text("object()"))>> \o RenderMembers(render, type.members)
         [] type.type = "array" ->
              <<Written(Text("array(")), Nested(type.elem), Written(Text(")"))>>
         [] type.type = "union" ->
              <<Written(Text("alternatives("))>> \o RenderList(type.of)
                \o <<Padded(-1), Written(Text(")"))>>
         [] type.type = "tuple" ->
              <<Written(Text("ordered("))>> \o RenderList(type.of)
                \o <<Padded(-1), Written(Text(")"))>>
                \o [i \in DOMAIN type.restElement |-> Nested(type.restElement[i])]
         [] OTHER -> <<Written(Text(type.type))>>

RECURSIVE RenderPieces(_, _, _)

\* renderSchemaType: pushes a render context, renders the rule, pops the context
RenderSchemaType(w, render, type) ==
  PopContext(RenderPieces(PushContext(w), render, RenderRule(render, type)))

\* the evaluation of a template, left to right
RenderPieces(w, render, pieces) ==
  IF pieces = <<>> THEN w
  ELSE The({RenderPieces(one, render, Tail(pieces)) :
            one \in {CASE Head(pieces).piece = "text" -> Emit(w, Ok(Head(pieces).toks))
                       [] Head(pieces).piece = "pad" -> Pad(w, Head(pieces).offset)
                       [] Head(pieces).piece = "throw" -> Fail(w)
                       [] OTHER ->
                            The({IF Head(pieces).indent THEN IndentOut(out) ELSE out :
                                 out \in {RenderSchemaType(IF Head(pieces).indent
                                                           THEN IndentIn(w) ELSE w,
                                                           render, Head(pieces).of[1])}})}})

\* one rendered declaration, and the renderer as the declaration left it
Item(kind, name, w) ==
  The({[throws |-> v.throws, kind |-> kind, name |-> name, toks |-> v.toks,
        ind |-> v.ind, ctx |-> v.ctx] : v \in {w}})

RenderInterface(w, render, declaration) ==
  LET heritage == Emit(w, Ok(FlattenHeritage(declaration.heritages)))
      members == IndentOut(RenderPieces(IndentIn(heritage), render,
                                        RenderMembers(render, declaration.members)))
  IN Item("interface", declaration.name, members)

RenderType(w, render, declaration) ==
  Item("type", declaration.name,
       IndentOut(RenderSchemaType(IndentIn(w), render, declaration.type)))

RenderEnum(w, render, declaration) == Item("enum", declaration.name, w)

\* renderImportExport: one line per used declaration, naming its bindings
RenderImportExport(kind, declaration) ==
  [throws |-> FALSE, kind |-> kind, name |-> declaration.file.path,
   toks |-> [i \in DOMAIN declaration.namedBindings |->
               Tok(BoundOrName(declaration.namedBindings[i]),
                   declaration.namedBindings[i].name)]]

\* a renderer that filters nothing
RendersEveryDeclaration(st, f, declaration) == TRUE

\* .filter((declaration) => this.referencedNames.has(declaration.name))
IsRendered(st, f, declaration) == declaration.name \in st.referencedNames[f]

FilterReferenced(st, f, decls) ==
  LET Keep(declaration) == IsRendered(st, f, declaration)
  IN SelectSeq(decls, Keep)

\* the comparator of renderInterfaces' sort
CompareInterfaces(a, b) ==
  IF \E i \in DOMAIN a.heritages :
       a.heritages[i].type = "type-reference" /\ a.heritages[i].name = b.name
  THEN -1
  ELSE IF \E i \in DOMAIN b.heritages :
            b.heritages[i].type = "type-reference" /\ b.heritages[i].name = a.name
       THEN 1
       ELSE 0

RECURSIVE InsertSorted(_, _), SortInterfaces(_)
\* Array.prototype.sort on a short array: insertion sort, the element moving
\* left past every tmp with comparefn(tmp, element) > 0
InsertSorted(sorted, element) ==
  IF sorted = <<>> THEN <<element>>
  ELSE LET tmp == sorted[Len(sorted)]
       IN IF CompareInterfaces(tmp, element) > 0
          THEN Append(InsertSorted(SubSeq(sorted, 1, Len(sorted) - 1), element), tmp)
          ELSE Append(sorted, element)

SortInterfaces(decls) ==
  IF decls = <<>> THEN <<>>
  ELSE InsertSorted(SortInterfaces(SubSeq(decls, 1, Len(decls) - 1)), decls[Len(decls)])

\* declarations.map((declaration) => this.render...(declaration)): each
\* declaration is rendered by the renderer as the one before left it
RECURSIVE RenderDeclarations(_, _, _, _)
RenderDeclarations(w, render, kind, decls) ==
  IF decls = <<>> THEN <<>>
  ELSE LET start == Begin(w.ind, w.ctx)
           first == CASE kind = "enum" -> RenderEnum(start, render, Head(decls))
                      [] kind = "interface" -> RenderInterface(start, render, Head(decls))
                      [] OTHER -> RenderType(start, render, Head(decls))
       IN The({IF item.throws THEN <<item>>
               ELSE <<item>> \o RenderDeclarations(item, render, kind, Tail(decls)) :
               item \in {first}})

\* the renderer after a list of rendered declarations
After(w, items) == IF items = <<>> THEN w ELSE items[Len(items)]

\* render(): imports, exports, enums, interfaces, types
RenderItems(st, f, render) ==
  LET imports == GetUsedImports(st, f)
      exports == GetUsedExports(st, f)
      start == Begin(st.indentation[f], st.renderContexts[f])
      Enums == RenderDeclarations(start, render, "enum",
                                  FilterReferenced(st, f, st.schema[f].enums))
      Interfaces(w) ==
        IF w.throws THEN <<>>
        ELSE RenderDeclarations(w, render, "interface",
               SortInterfaces(FilterReferenced(st, f, st.schema[f].interfaces)))
      Types(w) ==
        IF w.throws THEN <<>>
        ELSE RenderDeclarations(w, render, "type",
               FilterReferenced(st, f, st.schema[f].types))
      declarations ==
        The({The({The({enums \o interfaces \o types :
                       types \in {Types(After(After(start, enums), interfaces))}}) :
                  interfaces \in {Interfaces(After(start, enums))}}) :
             enums \in {Enums}})
  IN [i \in DOMAIN imports |-> RenderImportExport("import", imports[i])]
     \o [i \in DOMAIN exports |-> RenderImportExport("export", exports[i])]
     \o declarations

\* the text of one declaration, without the renderer's own state
TextOf(item) ==
  [throws |-> item.throws, kind |-> item.kind, name |-> item.name, toks |-> item.toks]

\* render(): null when the trimmed text is empty; the nesting counter and the
\* context stack are left as the last render* call left them
Rendering(st, f, items) ==
  LET declarations == SelectSeq(items, LAMBDA item : "ind" \in DOMAIN item)
      end == After(Begin(st.indentation[f], st.renderContexts[f]), declarations)
      kind == IF \E i \in DOMAIN items : items[i].throws THEN "throw"
              ELSE IF items = <<>> THEN "null"
              ELSE "text"
  IN [kind |-> kind,
      content |-> IF kind = "text" THEN [i \in DOMAIN items |-> TextOf(items[i])] ELSE <<>>,
      ind |-> end.ind, ctx |-> end.ctx]

Render(st, f, render) ==
  The({Rendering(st, f, items) : items \in {RenderItems(st, f, render)}})

(***************************************************************************)
(* The Type IR Compiler (SchemaProgram.compileTsType and                   *)
(* compileNonNullableType).  A ts.Type is what the type checker presents:  *)
(* its flags, its alias symbol, its symbol's name and tags, its text, and  *)
(* for a union its member types.                                           *)
(***************************************************************************)
TsType(flags, alias, symbol, text, types) ==
  [flags |-> flags, aliasSymbol |-> alias, symbol |-> symbol, tags |-> {},
   text |-> text, types |-> types]

TsString == TsType({"String"}, "", "", "string", <<>>)
TsNumber == TsType({"Number"}, "", "", "number", <<>>)
TsNull == TsType({"Null"}, "", "", "null", <<>>)
TsUndefined == TsType({"Undefined"}, "", "", "undefined", <<>>)
TsNever == TsType({"Never"}, "", "", "never", <<>>)
TsTrue == TsType({"BooleanLiteral"}, "", "", "true", <<>>)
TsFalse == TsType({"BooleanLiteral"}, "", "", "false", <<>>)
\* the type boolean is the union false | true carrying the Boolean flag
TsBoolean == TsType({"Boolean", "Union"}, "", "", "boolean", <<TsFalse, TsTrue>>)
\* an interface or class type named n
TsNamed(n) == TsType({"Object"}, "", n, n, <<>>)
\* `type n = string`
TsAlias(n) == TsType({"String"}, n, "", n, <<>>)
\* a type the compiler has no case for
TsOther == TsType({"TypeParameter"}, "", "", "T", <<>>)
\* the union of the given (two or more, distinct) member types
TsUnion(types) ==
  IF {types[i] : i \in DOMAIN types} = {TsTrue, TsFalse} THEN TsBoolean
  ELSE TsType({"Union"}, "", "", "union", types)

\* a tuple type: a reference to a tuple target, its type arguments being the
\* positional elements followed by the rest element if the target has one
TsTuple(typeArguments, minLength, hasRestElement) ==
  TsType({"Object"}, "", "", "tuple", <<>>)
    @@ [objectFlags |-> {"Reference", "Tuple"}, typeArguments |-> typeArguments,
        minLength |-> minLength, hasRestElement |-> hasRestElement]

\* a property of an object type or a property signature: its name, its `?`,
\* the value of its @regex tag ("" if it has none) and its type
Property(name, optional, regex, type) ==
  [name |-> name, optional |-> optional, regex |-> regex, type |-> type]

\* an anonymous object type (symbol name '__type') with the given properties
TsObject(properties) ==
  TsType({"Object"}, "", "", "__type", <<>>) @@ [properties |-> properties]

\* hasObjectFlag(type, Reference) && hasObjectFlag(type.target, Tuple)
IsTupleReference(type) ==
  "objectFlags" \in DOMAIN type /\ {"Reference", "Tuple"} \subseteq type.objectFlags

\* hasFlag(type, flags)
HasFlag(type, flags) == type.flags \cap flags # {}

\* checker.getNonNullableType(type): null and undefined are taken out of a union
GetNonNullableType(type, strict) ==
  IF strict /\ HasFlag(type, {"Union"})
  THEN LET kept == SelectSeq(type.types, LAMBDA t : ~HasFlag(t, {"Null", "Undefined"}))
       IN IF Len(kept) = Len(type.types) THEN type
          ELSE IF kept = <<>> THEN TsNever
          ELSE IF Len(kept) = 1 THEN kept[1]
          ELSE TsUnion(kept)
  ELSE type

\* a SchemaType as compileNonNullableType builds it: `required` not set
Node(t) == [type |-> t, required |-> "undefined"]
Optional(t) == [type |-> t, required |-> "false"]
Literal(value, valueType) ==
  [type |-> "literal", value |-> value, valueType |-> valueType, required |-> "undefined"]
\* the Error compileNonNullableType throws: 'Unknown type'
\* unpopped: the entries pushed on context.properties between the call and the throw
UnknownType == [type |-> "throw", required |-> "undefined", unpopped |-> <<>>]

\* a compiler that leaves `required` as the sub-compiler returned it
KeepRequired(node, required) == node

\* if (schemaType.required === undefined) { schemaType.required = ... }
DefaultRequired(node, required) ==
  IF node.required = "undefined" /\ node.type # "throw"
  THEN [node EXCEPT !.required = required]
  ELSE node

\* union.of.findIndex(t => t.type === 'literal' && t.value === value); 0 for -1
FindLiteral(of, value) ==
  LET found == {i \in DOMAIN of : /\ of[i].type = "literal"
                                  /\ of[i].valueType = "boolean"
                                  /\ of[i].value = value}
  IN IF found = {} THEN 0 ELSE Min(found)

\* union.of.splice(index, 1)
Splice(of, index) ==
  [i \in 1..(Len(of) - 1) |-> IF i < index THEN of[i] ELSE of[i + 1]]

\* a compiler that keeps both boolean literals of a union
KeepLiterals(of) == of

\* the boolean literals true and false of a union become one boolean alternative
MergeBooleanLiterals(of) ==
  LET trueIndex == FindLiteral(of, "true")
      falseIndex == FindLiteral(of, "false")
  IN IF trueIndex # 0 /\ falseIndex # 0
     THEN Splice([of EXCEPT ![trueIndex] = Leaf("boolean")], falseIndex)
     ELSE of

\* a wrapping that adds no alternative
NotWrapped(node) == node

\* if (nullable) schemaType = { type: 'union', of: [schemaType, null], required: true }
WrapNullable(node) == UnionOf(<<node, Leaf("null")>>)

\* an element that keeps the flag its own compilation produced
KeepElementFlag(node, i, minLength) == node

\* type.required = i < target.minLength (i counted from 0; here from 1)
ElementRequired(node, i, minLength) ==
  IF node.type = "throw" THEN node
  ELSE [node EXCEPT !.required = IF i <= minLength THEN "true" ELSE "false"]

\* type.typeArguments.slice(0, target.hasRestElement ? -1 : undefined)
PositionalTypes(type) ==
  IF type.hasRestElement
  THEN SubSeq(type.typeArguments, 1, Len(type.typeArguments) - 1)
  ELSE type.typeArguments

\* target.hasRestElement ? type.typeArguments.slice(-1)[0] : undefined
RestType(type) ==
  IF type.hasRestElement /\ type.typeArguments # <<>>
  THEN <<type.typeArguments[Len(type.typeArguments)]>>
  ELSE <<>>

\* the first Error thrown while the nodes were compiled one after the other
FirstThrowing(nodes) == Min({i \in DOMAIN nodes : nodes[i].type = "throw"})
FirstThrown(nodes) == nodes[FirstThrowing(nodes)]

\* an Error thrown between context.properties.push(prop) and the pop
ThrownUnder(prop, thrown) == [thrown EXCEPT !.unpopped = <<prop>> \o @]

\* if (t.required) { t.required = !optional }
RequiredUnless(node, optional) ==
  IF node.required = "true"
  THEN [node EXCEPT !.required = IF optional THEN "false" ELSE "true"]
  ELSE node

\* { type: 'string', ...this.getPropertyTags({ regex: 'value' }) }: the string
\* nodes compiled while a property is the top of context.properties carry its
\* @regex tag; the members of an object node were compiled under their own
\* property
RECURSIVE WithPropertyTags(_, _)
WithPropertyTags(node, regex) ==
  IF regex = "" THEN node
  ELSE IF node.type = "string" THEN node @@ [regex |-> regex]
  ELSE IF node.type \in {"union", "tuple"}
  THEN LET n == Len(node.of)
           nodes == IF node.type = "tuple" THEN node.of \o node.restElement ELSE node.of
           tagged == [i \in DOMAIN nodes |-> WithPropertyTags(nodes[i], regex)]
       IN IF node.type = "tuple"
          THEN [node EXCEPT !.of = SubSeq(tagged, 1, n),
                            !.restElement = SubSeq(tagged, n + 1, Len(tagged))]
          ELSE [node EXCEPT !.of = tagged]
  ELSE node

\* the member built from compileSymbolType(prop): the type was compiled while
\* prop was the top of context.properties
SymbolMember(prop, compiled) ==
  Member(prop.name, RequiredUnless(WithPropertyTags(compiled, prop.regex), prop.optional))

RECURSIVE CompileTsType(_, _, _), CompileNonNullableType(_, _, _)

CompileNonNullableType(type, ignore, strict) ==
  IF type.aliasSymbol # "" /\ type.aliasSymbol # ignore
  THEN [type |-> "type-reference", name |-> type.aliasSymbol, required |-> "undefined"]
  ELSE CASE HasFlag(type, {"Any"}) -> Node("any")
         [] HasFlag(type, {"Unknown"}) -> Node("unknown")
         [] HasFlag(type, {"String"}) -> Node("string")
         [] HasFlag(type, {"Number"}) -> Node("number")
         [] HasFlag(type, {"Boolean"}) -> Node("boolean")
         [] HasFlag(type, {"BigInt"}) -> Node("bigint")
         [] HasFlag(type, {"ESSymbol", "UniqueESSymbol"}) -> Node("symbol")
         [] HasFlag(type, {"Void"}) -> Optional("void")
         [] HasFlag(type, {"Undefined"}) -> Optional("undefined")
         [] HasFlag(type, {"Null"}) -> Node("null")
         [] HasFlag(type, {"Never"}) -> Optional("never")
         [] HasFlag(type, {"BooleanLiteral"}) -> Literal(type.text, "boolean")
         [] HasFlag(type, {"StringLiteral"}) -> Literal(type.text, "string")
         [] HasFlag(type, {"Union"}) ->
              LET of == [i \in DOMAIN type.types |-> CompileTsType(type.types[i], "", strict)]
              IN IF \E i \in DOMAIN of : of[i].type = "throw" THEN FirstThrown(of)
                 ELSE [type |-> "union", of |-> MergeBooleanLiterals(of),
                       required |-> "undefined"]
         [] HasFlag(type, {"Object"}) ->
              IF type.symbol # ""
              THEN [type |-> "type-reference", name |-> type.symbol, required |-> "undefined"]
              ELSE IF IsTupleReference(type)
              THEN LET all == [i \in DOMAIN type.typeArguments |->
                                 CompileTsType(type.typeArguments[i], "", strict)]
                       n == Len(PositionalTypes(type))
                   IN IF \E i \in DOMAIN all : all[i].type = "throw"
                      THEN FirstThrown([i \in DOMAIN RestType(type) |-> all[n + i]]
                                       \o SubSeq(all, 1, n))
                      ELSE [type |-> "tuple", minLength |-> type.minLength,
                            restElement |-> [i \in DOMAIN RestType(type) |-> all[n + i]],
                            of |-> [i \in 1..n |->
                                      ElementRequired(all[i], i, type.minLength)],
                            required |-> "undefined"]
              ELSE LET all == [i \in DOMAIN type.properties |->
                                 CompileTsType(type.properties[i].type, "", strict)]
                   IN IF \E i \in DOMAIN all : all[i].type = "throw"
                      THEN ThrownUnder(type.properties[FirstThrowing(all)], FirstThrown(all))
                      ELSE [type |-> "object", required |-> "undefined",
                            members |-> [i \in DOMAIN all |->
                                           SymbolMember(type.properties[i], all[i])]]
         [] OTHER -> UnknownType

CompileTsType(type, ignore, strict) ==
  IF HasFlag(type, {"Null", "Undefined"})
  THEN DefaultRequired(CompileNonNullableType(type, "", strict), "true")
  ELSE LET nullable ==
             IF strict
             THEN HasFlag(type, {"Union"})
                  /\ \E i \in DOMAIN type.types : HasFlag(type.types[i], {"Null"})
             ELSE "nullable" \in type.tags
           undefineable ==
             IF strict
             THEN HasFlag(type, {"Union"})
                  /\ \E i \in DOMAIN type.types : HasFlag(type.types[i], {"Undefined"})
             ELSE "undefineable" \in type.tags
           nonNullable == GetNonNullableType(type, strict)
           compiled ==
             DefaultRequired(CompileNonNullableType(nonNullable, ignore, strict),
                             IF undefineable THEN "false" ELSE "true")
       IN IF compiled.type = "throw" THEN compiled
          ELSE IF nullable THEN WrapNullable(compiled)
          ELSE compiled

\* The types handed to the compiler: a single type, or a union of two to four
\* distinct members in any order; without strictNullChecks null and undefined
\* are no union members and @nullable / @undefineable tags are read instead.
TsMembers ==
  {TsString, TsNumber, TsTrue, TsFalse, TsNull, TsUndefined, TsNamed("X"), TsAlias("Y")}

TsUnions ==
  UNION {{TsUnion(types) :
            types \in {t \in [1..n -> TsMembers] : \A i, j \in 1..n : i # j => t[i] # t[j]}} :
         n \in 2..4}

TsTagged == {[TsNamed("X") EXCEPT !.tags = tags] : tags \in SUBSET {"nullable", "undefineable"}}

WithoutNull(type) == \A i \in DOMAIN type.types : ~HasFlag(type.types[i], {"Null", "Undefined"})

\* Tuples of one to three positional elements, a minimum length up to their
\* number, with or without a rest element.
TsElements ==
  {TsString, TsUndefined, TsUnion(<<TsNumber, TsUndefined>>), TsUnion(<<TsString, TsNull>>)}

TsTuples ==
  UNION {{TsTuple(types \o rest, m, rest # <<>>) :
            types \in [1..n -> TsElements], m \in 0..n, rest \in {<<>>, <<TsNumber>>}} :
         n \in 1..3}

TsTypes(strict) ==
  IF strict THEN TsMembers \cup TsUnions \cup TsTuples \cup {TsOther, TsBoolean}
  ELSE TsMembers \cup {t \in TsUnions : WithoutNull(t)} \cup TsTagged \cup {TsOther, TsBoolean}

NoType == TsType({}, "", "", "", <<>>)
NoSchemaType == [type |-> "", required |-> "undefined"]

(***************************************************************************)
(* Type elements and declarations as the compiler reads them from the      *)
(* syntax tree (compileTypeElements and below).  context.properties is     *)
(* threaded through: every operator returns the stack it leaves.           *)
(***************************************************************************)
PropertySignature(name, optional, regex, type) ==
  Property(name, optional, regex, type) @@ [kind |-> "PropertySignature"]
\* [key: <parameter>]: <type>
IndexSignature(parameter, regex, type) ==
  Property("indexer", FALSE, regex, type)
    @@ [kind |-> "IndexSignature", parameter |-> parameter]
MethodSignature(name, optional) ==
  Property(name, optional, "", NoType) @@ [kind |-> "MethodSignature"]
\* a type element of another kind, such as a call signature
CallSignature == Property("", FALSE, "", NoType) @@ [kind |-> "CallSignature"]

\* this.property: the top of context.properties, as far as its tags go
PropertyRegex(properties) ==
  IF properties = <<>> THEN "" ELSE properties[Len(properties)].regex

\* compileOptType under the given context.properties; `compiled` is what
\* compileTsType makes of the type of the node, if the node has one
CompileOptType(type, compiled, properties) ==
  IF type = NoType THEN Leaf("any")
  ELSE WithPropertyTags(compiled, PropertyRegex(properties))

Compiled(member, properties) ==
  [thrown |-> FALSE, member |-> member, properties |-> properties]
Raised(properties) ==
  [thrown |-> TRUE, member |-> Member("", Leaf("any")), properties |-> properties]

\* push(node); compileOptType(node.type); required; pop(): a throw skips the pop
CompilePushed(node, compiled, properties, indexer) ==
  LET pushed == Append(properties, node)
      type == CompileOptType(node.type, compiled, pushed)
  IN IF type.type = "throw" THEN Raised(pushed \o type.unpopped)
     ELSE Compiled([name |-> node.name, type |-> RequiredUnless(type, node.optional),
                    indexer |-> indexer],
                   properties)

\* compilePropertySignature
CompilePropertySignature(node, compiled, properties) ==
  CompilePushed(node, compiled, properties, "")

\* compileIndexSignatureDeclaration: the parameter type is compiled before the push
CompileIndexSignatureDeclaration(node, parameter, compiled, properties) ==
  LET indexerType == CompileOptType(node.parameter, parameter, properties)
  IN IF indexerType.type = "throw" THEN Raised(properties \o indexerType.unpopped)
     ELSE CompilePushed(node, compiled, properties,
                        IF indexerType.type = "string" THEN "string" ELSE "number")

\* compileMethodSignature
CompileMethodSignature(node, properties) ==
  Compiled(Member(node.name, [type |-> "func",
                              required |-> IF node.optional THEN "false" ELSE "true"]),
           properties)

\* compileTypeElement; `parameter` and `compiled` are what compileTsType makes
\* of the parameter type and of the type of the node
CompileTypeElement(node, parameter, compiled, properties) ==
  CASE node.kind = "PropertySignature" -> CompilePropertySignature(node, compiled, properties)
    [] node.kind = "IndexSignature" ->
         CompileIndexSignatureDeclaration(node, parameter, compiled, properties)
    [] node.kind = "MethodSignature" -> CompileMethodSignature(node, properties)
    [] OTHER -> Raised(properties)

\* the type nodes of the members: for every member its parameter type, then its type
TypeNodes(members) ==
  [i \in 1..(2 * Len(members)) |->
     IF i % 2 = 0 THEN members[i \div 2].type
     ELSE IF members[(i + 1) \div 2].kind = "IndexSignature"
          THEN members[(i + 1) \div 2].parameter
          ELSE NoType]

\* compileTypeElements: members.map((member) => this.compileTypeElement(member));
\* a member that does not throw leaves context.properties as it found it, and
\* the first that throws ends the map
MapTypeElements(elements, properties) ==
  LET thrown == {i \in DOMAIN elements : elements[i].thrown}
  IN IF thrown = {}
     THEN [thrown |-> FALSE, members |-> [i \in DOMAIN elements |-> elements[i].member],
           properties |-> properties]
     ELSE [thrown |-> TRUE, members |-> <<>>, properties |-> elements[Min(thrown)].properties]

CompileTypeElements(members, properties, strict) ==
  The({MapTypeElements(elements, properties) :
         elements \in
           UNION {{[i \in DOMAIN members |->
                      CompileTypeElement(members[i], compiled[2 * i - 1], compiled[2 * i],
                                         properties)]} :
                  compiled \in {[i \in DOMAIN TypeNodes(members) |->
                                   CompileTsType(TypeNodes(members)[i], "", strict)]}}})

\* compileTypes: types.map((type) => this.compileType(type))
CompileTypes(types, properties, strict) ==
  LET of == [i \in DOMAIN types |->
               WithPropertyTags(CompileTsType(types[i], "", strict),
                                PropertyRegex(properties))]
  IN IF \E i \in DOMAIN of : of[i].type = "throw"
     THEN [thrown |-> TRUE, types |-> <<>>,
           properties |-> properties \o FirstThrown(of).unpopped]
     ELSE [thrown |-> FALSE, types |-> of, properties |-> properties]

\* interface <name> extends <heritages> { <members> }
InterfaceNode(n, tags, heritages, members) ==
  [kind |-> "interface-node", name |-> n, tags |-> tags, typeParameters |-> FALSE,
   heritages |-> heritages, members |-> members]
\* type <name> = <type>
TypeAliasNode(n, tags, type) ==
  [kind |-> "type-node", name |-> n, tags |-> tags, type |-> type]

(***************************************************************************)
(* The input of a run: source statements as the TypeScript program and     *)
(* checker present them to SchemaProgram.                                  *)
(***************************************************************************)
Binding(n) == [name |-> n, bound |-> ""]
BindingAs(b, n) == [name |-> n, bound |-> b]

\* interface <name> [extends heritages] { members }, with its JSDoc tags
InterfaceStmt(n, tags, heritages, members) ==
  [kind |-> "interface", name |-> n, tags |-> tags, typeParameters |-> FALSE,
   throws |-> FALSE, heritages |-> heritages, members |-> members]
\* interface <name><T>
GenericStmt(n, tags) ==
  [kind |-> "interface", name |-> n, tags |-> tags, typeParameters |-> TRUE,
   throws |-> FALSE, heritages |-> <<>>, members |-> <<>>]
\* an interface with a type element or a type the compiler throws on
FailingStmt(n, tags) ==
  [kind |-> "interface", name |-> n, tags |-> tags, typeParameters |-> FALSE,
   throws |-> TRUE, heritages |-> <<>>, members |-> <<>>]
\* type <name> = <type>
TypeAliasStmt(n, tags, type) ==
  [kind |-> "type", name |-> n, tags |-> tags, throws |-> FALSE, body |-> type]
FailingAliasStmt(n, tags) ==
  [kind |-> "type", name |-> n, tags |-> tags, throws |-> TRUE, body |-> Leaf("any")]
EnumStmt(n, tags) == [kind |-> "enum", name |-> n, tags |-> tags]
\* import { elements } from '<moduleSpecifier>'
ImportStmt(spec, elements) ==
  [kind |-> "import", moduleSpecifier |-> spec, named |-> TRUE, elements |-> elements]
\* import Default from '<moduleSpecifier>' / import '<moduleSpecifier>'
UnnamedImportStmt(spec) ==
  [kind |-> "import", moduleSpecifier |-> spec, named |-> FALSE, elements |-> <<>>]
\* export { elements } [from '<moduleSpecifier>']
ExportStmt(spec, elements) ==
  [kind |-> "export", moduleSpecifier |-> spec, named |-> TRUE, elements |-> elements]
\* any other top-level statement
OtherStmt == [kind |-> "other"]

Schema == "schema"
NoSchema == "noschema"

\* a node on which no tag is ever found
NeverTagged(node, tagName) == FALSE

\* this.getTag(node, tagName)
GetTag(node, tagName) == tagName \in node.tags

\* moduleSpecifier.startsWith('.')
IsRelative(spec) == spec.marker = "."

\* name.endsWith(suffix), suffix = Defaults.fileSuffix
EndsWithSuffix(file) == file = "gen-schema"

\* options.render values main() lets through
ValidRenderType(render) == render \in {"joi", "joi-15", "yup", "yup-0.19"}

\* options.render values createSchemaBuilder has a builder for
HasSchemaBuilder(render) == render \in {"yup", "yup-0.29", "joi", "joi-15"}

(***************************************************************************)
(* The inputs the model runs on.  Every input is a well-formed command     *)
(* line: a render option, the root file names and the source files.        *)
(***************************************************************************)
Input(render, roots, src) == [render |-> render, rootFileNames |-> roots, src |-> src]

RefMember(n) == <<Member("m", TypeReference(n))>>
Tags == {{}, {Schema}}

\* One file, three declarations X, Y, Z in this order; each is forced or not and
\* references a declaration before it, itself, one after it, the undeclared U or
\* nothing, or fails to compile.
DeclsA(n) ==
  UNION {{InterfaceStmt(n, tags, <<>>, RefMember(r)) : r \in {"X", "Y", "Z", "U"}}
         \cup {InterfaceStmt(n, tags, <<>>, <<>>), FailingStmt(n, tags)} : tags \in Tags}

SingleFileInputs ==
  {Input("joi", <<"a">>, "a" :> <<d1, d2, d3>>) :
     d1 \in DeclsA("X"), d2 \in DeclsA("Y"), d3 \in DeclsA("Z")}

\* Two files importing from each other: a declares D and Z and imports from b,
\* b declares X and Y and may import from a.
OptRefMember(r) == IF r = "" THEN <<>> ELSE RefMember(r)

TwoFileSources ==
  {("a" :> <<ImportStmt(Rel("b"), ba),
             InterfaceStmt("D", td, <<>>, RefMember(rd)),
             InterfaceStmt("Z", {}, <<>>, OptRefMember(rz))>>)
   @@ ("b" :> bb \o <<InterfaceStmt("X", tx, <<>>, OptRefMember(rx)),
                      InterfaceStmt("Y", {}, <<>>, <<>>)>>) :
     ba \in {<<Binding("X")>>, <<Binding("X"), Binding("Y")>>},
     bb \in {<<>>, <<ImportStmt(Rel("a"), <<Binding("Z")>>)>>,
             <<ImportStmt(Rel("a"), <<Binding("D"), Binding("Z")>>)>>},
     td \in Tags, tx \in Tags,
     rd \in {"X", "Y", "Z"},
     rz \in {"", "X", "Y", "D"},
     rx \in {"", "Z", "D", "Y"}}

TwoFileInputs ==
  {Input("joi", roots, src) : roots \in {<<"a">>, <<"b", "a">>}, src \in TwoFileSources}

\* Two declarations in two files, each referencing the other: through a member, a
\* heritage clause, an alias body or a nullable member.
MutualDecl(n, tags, how, r) ==
  CASE how = "member" -> InterfaceStmt(n, tags, <<>>, RefMember(r))
    [] how = "heritage" -> InterfaceStmt(n, tags, <<TypeReference(r)>>, <<>>)
    [] how = "alias" -> TypeAliasStmt(n, tags, TypeReference(r))
    [] how = "nullable" ->
         InterfaceStmt(n, tags, <<>>,
                       <<Member("m", UnionOf(<<TypeReference(r), Leaf("null")>>))>>)

Hows == {"member", "heritage", "alias", "nullable"}

MutualInputs ==
  {Input(render, roots,
         ("a" :> <<ImportStmt(Rel("b"), <<Binding("X")>>), MutualDecl("D", td, ha, "X")>>)
         @@ ("b" :> <<ImportStmt(Rel("a"), <<Binding("D")>>), MutualDecl("X", tx, hb, "D")>>)) :
     render \in {"joi", "yup"},
     roots \in {<<"a">>, <<"b">>, <<"a", "b">>, <<"b", "a">>},
     td \in Tags, tx \in Tags, ha \in Hows, hb \in Hows}

\* A forced declaration of a references X, which a imports from b; b binds X to
\* a declaration of its own or passes it on (import + local export, or re-export)
\* to c, back to a, to itself, to a generated file, a package or a missing file;
\* c declares X or re-exports it from b.
Targets == {Rel("c"), Rel("a"), Rel("b"), Rel("gen-schema"), Rel("missing"), Pkg("pkg")}

SourcesB ==
  {<<InterfaceStmt("X", {}, <<>>, <<>>)>>, <<EnumStmt("X", {})>>}
  \cup {<<ExportStmt(t, <<b>>)>> :
          t \in Targets, b \in {Binding("X"), BindingAs("Y", "X")}}
  \cup {<<ImportStmt(t, <<b>>), ExportStmt(NoFile, <<Binding("X")>>)>> :
          t \in Targets, b \in {Binding("X"), BindingAs("Y", "X")}}

SourcesC ==
  {<<InterfaceStmt("X", {}, <<>>, <<>>), TypeAliasStmt("Y", {}, TypeReference("X"))>>,
   <<ExportStmt(Rel("b"), <<Binding("X"), BindingAs("X", "Y")>>)>>,
   <<>>}

ChainInputs ==
  {Input("joi", roots,
         ("a" :> <<ImportStmt(Rel("b"), <<Binding("X")>>),
                   InterfaceStmt("D", {Schema}, <<>>, RefMember("X"))>>)
         @@ ("b" :> sb) @@ ("c" :> sc) @@ ("gen-schema" :> <<OtherStmt>>)) :
     roots \in {<<"a">>, <<"b", "a">>, <<"c", "b", "a">>, <<"gen-schema", "a">>},
     sb \in SourcesB, sc \in SourcesC}

\* A tuple alias T, reachable or not, forced or not, under every render option.
TupleT == TupleOf(<<Leaf("string"), Leaf("number")>>, <<>>)

TupleInputs ==
  {Input(render, <<"a">>, "a" :> stmts) :
     render \in {"joi", "joi-15", "yup", "yup-0.19", "yup-0.29", "j0i"},
     stmts \in UNION {{<<InterfaceStmt("D", {Schema}, <<>>, OptRefMember(r)),
                         TypeAliasStmt("T", tags, TupleT)>>,
                       <<TypeAliasStmt("T", tags, TupleT),
                         InterfaceStmt("D", {Schema}, <<>>, OptRefMember(r))>>} :
                        tags \in Tags, r \in {"", "T"}}}

\* Declarations the compiler skips or throws on, and statements it ignores,
\* before and after a forced declaration D.
OddStatements ==
  {GenericStmt("X", tags) : tags \in SUBSET {Schema, NoSchema}}
  \cup {FailingAliasStmt("X", tags) : tags \in SUBSET {Schema, NoSchema}}
  \cup {EnumStmt("X", tags) : tags \in SUBSET {Schema, NoSchema}}
  \cup {InterfaceStmt("X", tags, <<>>, <<>>) : tags \in {{NoSchema}, {Schema, NoSchema}}}
  \cup {TypeAliasStmt("X", tags, Leaf("string")) : tags \in {{NoSchema}, {Schema, NoSchema}}}
  \cup {OtherStmt,
        UnnamedImportStmt(Rel("b")), ImportStmt(Pkg("b"), <<Binding("X")>>),
        ImportStmt(Rel("b"), <<Binding("X")>>),
        ExportStmt(NoFile, <<Binding("D")>>),
        [kind |-> "export", moduleSpecifier |-> Rel("b"), named |-> FALSE,
         elements |-> <<>>]}

OddInputs ==
  {Input("joi", <<"a">>,
         ("a" :> <<s1, InterfaceStmt("D", {Schema}, <<>>, RefMember("X")), s2>>)
         @@ ("b" :> <<EnumStmt("X", {})>>)) :
     s1 \in OddStatements, s2 \in OddStatements}

\* One file, three interfaces X, Y, Z in this order; each is forced or not and
\* extends one of the other two or nothing; the member of each is a string, a
\* reference to the next interface or an indexed access into it.
MemberType(how, r) ==
  CASE how = "reference" -> TypeReference(r)
    [] how = "access" -> TypeAccess(r, "m")
    [] OTHER -> Leaf("string")

HeritageDecl(n, tags, r, how, next) ==
  InterfaceStmt(n, tags, IF r = "" THEN <<>> ELSE <<TypeReference(r)>>,
                <<Member("m", MemberType(how, next))>>)

HeritageInputs ==
  {Input(render, <<"a">>,
         "a" :> <<HeritageDecl("X", tx, rx, how, "Y"), HeritageDecl("Y", ty, ry, how, "Z"),
                  HeritageDecl("Z", tz, rz, how, "X")>>) :
     render \in {"joi", "yup"}, tx \in Tags, ty \in Tags, tz \in Tags,
     rx \in {"", "Y", "Z"}, ry \in {"", "X", "Z"}, rz \in {"", "X", "Y"},
     how \in {"string", "reference", "access"}}

\* The ways an IR tree nests a reference to the declaration r.
Nestings(r) ==
  {ArrayOf(TypeReference(r)),
   ObjectOf(<<Member("k", TypeReference(r))>>),
   ObjectOf(<<[Member("indexer", TypeAccess(r, "m")) EXCEPT !.indexer = "string"]>>),
   TupleOf(<<TypeReference(r), Leaf("number")>>, <<>>),
   TupleOf(<<Leaf("string")>>, <<TypeReference(r)>>),
   UnionOf(<<Leaf("string"), TypeReference(r)>>),
   IntersectionOf(<<ObjectOf(<<>>), TypeReference(r)>>),
   ArrayOf(UnionOf(<<Leaf("null"), TypeAccess(r, "m")>>))}

\* One file: a forced declaration D whose tree nests a reference to X, an
\* interface or an enumeration written before or after D.
NestingInputs ==
  {Input(render, <<"a">>, "a" :> stmts) :
     render \in {"joi", "yup"},
     stmts \in UNION {{<<x, d>>, <<d, x>>} :
                        x \in {InterfaceStmt("X", {}, <<>>, <<>>), EnumStmt("X", {})},
                        d \in {InterfaceStmt("D", {Schema}, <<>>, <<Member("m", t)>>) :
                                 t \in Nestings("X")}
                              \cup {TypeAliasStmt("D", {Schema}, t) : t \in Nestings("X")}}}

Inputs ==
  SingleFileInputs \cup TwoFileInputs \cup MutualInputs \cup ChainInputs
  \cup TupleInputs \cup OddInputs \cup HeritageInputs \cup NestingInputs

(***************************************************************************)
(* State of the run as the record the tracker's operators thread.          *)
(***************************************************************************)
St == [schemas |-> schemas, schema |-> schema, finalized |-> finalized,
       referencedNames |-> referencedNames, err |-> NoError,
       expanded |-> expanded, uses |-> uses,
       indentation |-> indentation, renderContexts |-> renderContexts]

Commit(st) ==
  /\ schema' = st.schema
  /\ referencedNames' = st.referencedNames
  /\ expanded' = st.expanded
  /\ uses' = st.uses

\* an Error that is caught and dropped: compile() returns what it has
CatchAndReturn(message) ==
  /\ pc' = "returned"
  /\ error' = message

\* an Error that nothing catches: compile() and main() end with it
Throw(message) ==
  /\ pc' = "aborted"
  /\ error' = message

Top == contexts[Len(contexts)]
Statements(file) == input.src[file]
Exists(file) == file \in DOMAIN input.src

\* compile() is in its first loop, inside compileSourceFileStatements of Top.schema
InStatements ==
  /\ pc = "compile"
  /\ contexts # <<>>
  /\ ~Top.pending
  /\ Top.pos <= Len(Statements(Top.schema))

Statement == Statements(Top.schema)[Top.pos]

\* the statement loop moves on to the next statement of the file
NextStatement ==
  /\ contexts' = [contexts EXCEPT ![Len(contexts)].pos = @ + 1]
  /\ visited' = [visited EXCEPT ![Top.schema] = @ + 1]

\* a compileSourceFile that does not look the file up in the file map
EntersEverySourceFile(file) == Exists(file) /\ ~EndsWithSuffix(file)

\* compileSourceFile's test: the file gets a File Schema and is compiled
EntersSourceFile(file) ==
  /\ Exists(file)
  /\ ~(\E i \in DOMAIN schemas : schemas[i] = file)
  /\ ~EndsWithSuffix(file)

NewContext(file) == [schema |-> file, pos |-> 1, pending |-> FALSE, properties |-> <<>>]

(***************************************************************************)
(* main() and SchemaProgram.compile()                                      *)
(***************************************************************************)
\* the fields of a SchemaProgram and its builders after construction
Constructed ==
  /\ schemas = <<>>
  /\ schema = [f \in Files |-> EmptySchema]
  /\ referencedNames = [f \in Files |-> {}]
  /\ finalized = [f \in Files |-> FALSE]
  /\ contexts = <<>>
  /\ rootIdx = 1
  /\ finIdx = 1
  /\ renIdx = 1
  /\ result = <<>>
  /\ written = {}
  /\ warnings = <<>>
  /\ error = NoError
  /\ visited = [f \in Files |-> 0]
  /\ expanded = <<>>
  /\ uses = <<>>
  /\ rendered = <<>>
  /\ indentation = [f \in Files |-> 0]
  /\ renderContexts = [f \in Files |-> 0]

Init ==
  /\ input \in Inputs
  /\ pc = "main"
  /\ Constructed
  /\ tsType = NoType
  /\ ignoreRef = ""
  /\ strictNullChecks = TRUE
  /\ schemaType = NoSchemaType

\* main(): the render option is checked, then SchemaProgram.compile(options) is called
Main ==
  /\ pc = "main"
  /\ IF ValidRenderType(input.render)
     THEN pc' = "compile" /\ error' = error
     ELSE Throw("Invalid render type")
  /\ UNCHANGED <<typeVars, input, indentation, renderContexts, schemas, schema, referencedNames, finalized, contexts, rootIdx,
                 finIdx, renIdx, result, written, warnings, visited, expanded, uses,
                 rendered>>

\* compile(), first loop: compileNode(sourceFile) of the next root file
VisitRoot ==
  /\ pc = "compile"
  /\ contexts = <<>>
  /\ rootIdx <= Len(input.rootFileNames)
  /\ LET file == input.rootFileNames[rootIdx]
     IN IF EntersSourceFile(file)
        THEN IF HasSchemaBuilder(input.render)
             THEN /\ schemas' = Append(schemas, file)
                  /\ contexts' = Append(contexts, NewContext(file))
                  /\ rootIdx' = rootIdx + 1
                  /\ UNCHANGED <<pc, error>>
             ELSE /\ Throw("Invalid render option")
                  /\ UNCHANGED <<schemas, contexts, rootIdx>>
        ELSE /\ rootIdx' = rootIdx + 1
             /\ UNCHANGED <<pc, error, schemas, contexts>>
  /\ UNCHANGED <<typeVars, input, indentation, renderContexts, schema, referencedNames, finalized, finIdx, renIdx, result,
                 written, warnings, visited, expanded, uses, rendered>>

\* compileEnumDeclaration
CompileEnumDeclaration ==
  /\ InStatements
  /\ Statement.kind = "enum"
  /\ LET node == Statement
         f == Top.schema
         st == IF ~GetTag(node, NoSchema)
               THEN WriteEnum(St, f, [name |-> node.name], GetTag(node, Schema))
               ELSE St
     IN Commit(st)
  /\ NextStatement
  /\ UNCHANGED <<typeVars, input, indentation, renderContexts, pc, schemas, finalized, rootIdx, finIdx, renIdx, result, written,
                 warnings, error, rendered>>

\* a compiler that records every declaration not tagged @noschema
OutcomeAlwaysWrite(node) == IF GetTag(node, NoSchema) THEN "skip" ELSE "write"

\* what compileInterfaceDeclaration / compileTypeAliasDeclaration do with `node`:
\* "skip" (@noschema), "throw", "warn" or "write"
Outcome(node) ==
  IF GetTag(node, NoSchema) THEN "skip"
  ELSE IF (node.kind = "interface" /\ node.typeParameters) \/ node.throws
       THEN IF GetTag(node, Schema) THEN "throw" ELSE "warn"
       ELSE "write"

\* compileInterfaceDeclaration
CompileInterfaceDeclaration ==
  /\ InStatements
  /\ Statement.kind = "interface"
  /\ LET node == Statement
         f == Top.schema
         declaration == [name |-> node.name, heritages |-> node.heritages,
                         members |-> node.members]
         st == IF Outcome(node) = "write"
               THEN WriteInterface(St, f, declaration, GetTag(node, Schema))
               ELSE St
     IN /\ Commit(st)
        /\ IF Outcome(node) = "throw" \/ st.err # NoError
           THEN Throw("Unable to compile interface") /\ UNCHANGED <<contexts, visited>>
           ELSE NextStatement /\ UNCHANGED <<pc, error>>
        /\ warnings' = IF Outcome(node) = "warn" THEN Append(warnings, <<f, node.name>>)
                       ELSE warnings
  /\ UNCHANGED <<typeVars, input, indentation, renderContexts, schemas, finalized, rootIdx, finIdx, renIdx, result, written,
                 rendered>>

\* compileTypeAliasDeclaration
CompileTypeAliasDeclaration ==
  /\ InStatements
  /\ Statement.kind = "type"
  /\ LET node == Statement
         f == Top.schema
         declaration == [name |-> node.name, type |-> node.body]
         st == IF Outcome(node) = "write"
               THEN WriteType(St, f, declaration, GetTag(node, Schema))
               ELSE St
     IN /\ Commit(st)
        /\ IF Outcome(node) = "throw" \/ st.err # NoError
           THEN Throw("Unable to compile type alias") /\ UNCHANGED <<contexts, visited>>
           ELSE NextStatement /\ UNCHANGED <<pc, error>>
        /\ warnings' = IF Outcome(node) = "warn" THEN Append(warnings, <<f, node.name>>)
                       ELSE warnings
  /\ UNCHANGED <<typeVars, input, indentation, renderContexts, schemas, finalized, rootIdx, finIdx, renIdx, result, written,
                 rendered>>

\* compileImportDeclaration: only named imports from a relative specifier are followed
FollowsImport(node) == node.named /\ IsRelative(node.moduleSpecifier)

CompileImportDeclaration ==
  /\ InStatements
  /\ Statement.kind = "import"
  /\ LET node == Statement
         f == Top.schema
         file == node.moduleSpecifier.path
         st == IF FollowsImport(node)
               THEN WriteImport(St, f, [file |-> node.moduleSpecifier,
                                        namedBindings |-> node.elements])
               ELSE St
         moved == [contexts EXCEPT ![Len(contexts)].pos = @ + 1]
     IN /\ Commit(st)
        /\ visited' = [visited EXCEPT ![f] = @ + 1]
        /\ IF FollowsImport(node) /\ EntersSourceFile(file)
           THEN /\ schemas' = Append(schemas, file)
                /\ contexts' = Append(moved, NewContext(file))
           ELSE /\ schemas' = schemas
                /\ contexts' = moved
  /\ UNCHANGED <<typeVars, input, indentation, renderContexts, pc, finalized, rootIdx, finIdx, renIdx, result, written,
                 warnings, error, rendered>>

\* compileExportDeclaration: a relative specifier's file is compiled first ...
FollowsExport(node) ==
  node.named /\ node.moduleSpecifier # NoFile /\ IsRelative(node.moduleSpecifier)

\* `file = moduleSpecifier` (l.648): the file recorded with the export declaration
ExportedFile(node) == node.moduleSpecifier

CompileExportDeclaration ==
  /\ InStatements
  /\ Statement.kind = "export"
  /\ LET node == Statement
         f == Top.schema
         file == node.moduleSpecifier.path
     IN IF FollowsExport(node) /\ EntersSourceFile(file)
        THEN /\ schemas' = Append(schemas, file)
             /\ contexts' = Append([contexts EXCEPT ![Len(contexts)].pending = TRUE],
                                   NewContext(file))
             /\ UNCHANGED <<schema, referencedNames, expanded, uses, visited>>
        ELSE /\ Commit(IF node.named
                       THEN WriteExport(St, f, [file |-> ExportedFile(node),
                                                namedBindings |-> node.elements])
                       ELSE St)
             /\ NextStatement
             /\ schemas' = schemas
  /\ UNCHANGED <<typeVars, input, indentation, renderContexts, pc, finalized, rootIdx, finIdx, renIdx, result, written,
                 warnings, error, rendered>>

\* ... and writeExport follows when that file's compilation has returned
WriteExportOnReturn ==
  /\ pc = "compile"
  /\ contexts # <<>>
  /\ Top.pending
  /\ LET node == Statements(Top.schema)[Top.pos]
     IN Commit(WriteExport(St, Top.schema, [file |-> ExportedFile(node),
                                            namedBindings |-> node.elements]))
  /\ contexts' = [contexts EXCEPT ![Len(contexts)].pos = @ + 1,
                                  ![Len(contexts)].pending = FALSE]
  /\ visited' = [visited EXCEPT ![Top.schema] = @ + 1]
  /\ UNCHANGED <<typeVars, input, indentation, renderContexts, pc, schemas, finalized, rootIdx, finIdx, renIdx, result, written,
                 warnings, error, rendered>>

\* compileNode on a top-level statement of no handled kind
SkipStatement ==
  /\ InStatements
  /\ Statement.kind = "other"
  /\ NextStatement
  /\ UNCHANGED <<typeVars, input, indentation, renderContexts, pc, schemas, schema, referencedNames, finalized, rootIdx, finIdx,
                 renIdx, result, written, warnings, error, expanded, uses, rendered>>

\* compileSourceFile: the statements are done, this.contexts.pop()
LeaveSourceFile ==
  /\ pc = "compile"
  /\ contexts # <<>>
  /\ ~Top.pending
  /\ Top.pos > Len(Statements(Top.schema))
  /\ contexts' = SubSeq(contexts, 1, Len(contexts) - 1)
  /\ UNCHANGED <<typeVars, input, indentation, renderContexts, pc, schemas, schema, referencedNames, finalized, rootIdx, finIdx,
                 renIdx, result, written, warnings, error, visited, expanded, uses,
                 rendered>>

\* a compile() whose loops are not sequenced: any point after its start
CompileStarted == pc = "compile"

\* compile(): the first loop (every root file visited) has ended
PhaseOneDone == contexts = <<>> /\ rootIdx > Len(input.rootFileNames)

\* compile(): the second loop (finalize on every File Schema) has ended
FinalizeDone == PhaseOneDone /\ finIdx > Len(schemas)

\* compile(), second loop: schema.finalize() of the next File Schema
Finalize ==
  /\ pc = "compile"
  /\ PhaseOneDone
  /\ finIdx <= Len(schemas)
  /\ LET f == schemas[finIdx]
         st == FinalizeBuilder(St, f)
     IN /\ Commit(st)
        /\ IF st.err # NoError
           THEN Throw(st.err) /\ UNCHANGED <<finalized, finIdx>>
           ELSE /\ finalized' = [finalized EXCEPT ![f] = TRUE]
                /\ finIdx' = finIdx + 1
                /\ UNCHANGED <<pc, error>>
  /\ UNCHANGED <<typeVars, input, indentation, renderContexts, schemas, contexts, rootIdx, renIdx, result, written, warnings,
                 visited, rendered>>

\* compile(), third loop: schema.render() of the next File Schema
RenderFile ==
  /\ pc = "compile"
  /\ FinalizeDone
  /\ renIdx <= Len(schemas)
  /\ LET f == schemas[renIdx]
         content == Render(St, f, input.render)
     IN /\ rendered' = Append(rendered, f)
        /\ indentation' = [indentation EXCEPT ![f] = content.ind]
        /\ renderContexts' = [renderContexts EXCEPT ![f] = content.ctx]
        /\ IF content.kind = "throw"
           THEN Throw("not supported") /\ UNCHANGED <<renIdx, result>>
           ELSE /\ renIdx' = renIdx + 1
                /\ result' = IF content.kind = "text"
                             THEN Append(result, [schemaFile |-> f,
                                                  content |-> content.content])
                             ELSE result
                /\ UNCHANGED <<pc, error>>
  /\ UNCHANGED <<typeVars, input, schemas, schema, referencedNames, finalized, contexts, rootIdx,
                 finIdx, written, warnings, visited, expanded, uses>>

\* compile() returns result
Return ==
  /\ pc = "compile"
  /\ FinalizeDone
  /\ renIdx > Len(schemas)
  /\ pc' = "returned"
  /\ UNCHANGED <<typeVars, input, indentation, renderContexts, schemas, schema, referencedNames, finalized, contexts, rootIdx,
                 finIdx, renIdx, result, written, warnings, error, visited, expanded,
                 uses, rendered>>

\* main(): fs.outputFile of every compilation result
WriteOutput ==
  /\ pc = "returned"
  /\ written' = {result[i].schemaFile : i \in DOMAIN result}
  /\ pc' = "done"
  /\ UNCHANGED <<typeVars, input, indentation, renderContexts, schemas, schema, referencedNames, finalized, contexts, rootIdx,
                 finIdx, renIdx, result, warnings, error, visited, expanded, uses,
                 rendered>>

Next ==
  \/ Main
  \/ VisitRoot
  \/ CompileEnumDeclaration
  \/ CompileInterfaceDeclaration
  \/ CompileTypeAliasDeclaration
  \/ CompileImportDeclaration
  \/ CompileExportDeclaration
  \/ WriteExportOnReturn
  \/ SkipStatement
  \/ LeaveSourceFile
  \/ Finalize
  \/ RenderFile
  \/ Return
  \/ WriteOutput

Spec == Init /\ [][Next]_vars

(***************************************************************************)
(* compileType(node, ignoreRef): the type of one type node is compiled     *)
(* into the IR.                                                            *)
(***************************************************************************)
CompilerInit ==
  /\ input = Input("joi", <<>>, "a" :> <<>>)
  /\ pc = "type"
  /\ Constructed
  /\ strictNullChecks \in BOOLEAN
  /\ tsType \in TsTypes(strictNullChecks)
  /\ ignoreRef \in {"", "Y"}
  /\ schemaType = NoSchemaType

\* compileType: this.compileTsType(this.checker.getTypeFromTypeNode(node), ignoreRef)
CompileType ==
  /\ pc = "type"
  /\ schemaType' = CompileTsType(tsType, ignoreRef, strictNullChecks)
  /\ pc' = IF schemaType'.type = "throw" THEN "thrown" ELSE "compiled"
  /\ UNCHANGED <<input, schemas, schema, referencedNames, finalized, contexts, rootIdx,
                 finIdx, renIdx, result, written, warnings, error, visited, expanded,
                 uses, rendered, indentation, renderContexts, tsType, ignoreRef,
                 strictNullChecks>>

CompilerNext == CompileType

CompilerSpec == CompilerInit /\ [][CompilerNext]_vars

(***************************************************************************)
(* One source file compiled from its syntax tree: the interface and type   *)
(* alias declarations of file "a" go through the Type IR Compiler, with    *)
(* the property stack of the file's context, and are written to the        *)
(* file's BaseSchemaBuilder.                                               *)
(***************************************************************************)
MemberLists ==
  {<<>>,
   <<PropertySignature("p", FALSE, "^p$", TsString)>>,
   <<PropertySignature("p", TRUE, "", TsNumber)>>,
   <<PropertySignature("p", FALSE, "^p$", TsOther)>>,
   <<PropertySignature("p", FALSE, "", TsNamed("Z"))>>,
   <<PropertySignature("p", FALSE, "^p$",
                       TsObject(<<Property("q", FALSE, "^q$", TsOther)>>))>>,
   <<PropertySignature("p", FALSE, "",
                       TsObject(<<Property("q", TRUE, "^q$", TsString)>>))>>,
   <<IndexSignature(TsString, "", TsNumber)>>,
   <<IndexSignature(TsNumber, "^i$", TsString)>>,
   <<IndexSignature(TsString, "", TsNumber), IndexSignature(TsNumber, "", TsNumber)>>,
   <<PropertySignature("p", FALSE, "", TsString), IndexSignature(TsString, "", TsOther)>>,
   <<MethodSignature("f", TRUE)>>,
   <<CallSignature>>}

AliasTypes ==
  {TsString, TsNumber, TsOther, TsUnion(<<TsString, TsNull>>),
   TsTuple(<<TsString, TsNumber>>, 1, TRUE),
   TsObject(<<Property("q", FALSE, "", TsString)>>)}

NodeTags == {{}, {Schema}, {NoSchema}}

InterfaceNodes(n) ==
  {InterfaceNode(n, tags, <<>>, members) : tags \in NodeTags, members \in MemberLists}
    \cup {InterfaceNode(n, {}, <<TsNamed("Z")>>, <<>>), InterfaceNode(n, {}, <<TsOther>>, <<>>),
          [InterfaceNode(n, {}, <<>>, <<>>) EXCEPT !.typeParameters = TRUE]}

TypeAliasNodes(n) == {TypeAliasNode(n, tags, type) : tags \in NodeTags, type \in AliasTypes}

\* file "a" declares X and then Y
DeclarationInputs ==
  {Input("joi", <<"a">>, "a" :> <<x, y>>) :
     x \in InterfaceNodes("X") \cup TypeAliasNodes("X"),
     y \in InterfaceNodes("Y") \cup TypeAliasNodes("Y")}

DeclarationInit ==
  /\ input \in DeclarationInputs
  /\ pc = "compile"
  /\ Constructed
  /\ tsType = NoType
  /\ ignoreRef = ""
  /\ strictNullChecks = TRUE
  /\ schemaType = NoSchemaType

\* the statement loop moves on, context.properties being what the statement left
NextStatementWith(properties) ==
  /\ contexts' = [contexts EXCEPT ![Len(contexts)].pos = @ + 1,
                                  ![Len(contexts)].properties = properties]
  /\ visited' = [visited EXCEPT ![Top.schema] = @ + 1]

\* compileInterfaceDeclaration on the syntax tree
CompileInterfaceNode ==
  /\ InStatements
  /\ Statement.kind = "interface-node"
  /\ \E node \in {Statement}, f \in {Top.schema} :
     \E heritages \in {CompileTypes(node.heritages, Top.properties, strictNullChecks)} :
     \E members \in {IF heritages.thrown
                     THEN [thrown |-> TRUE, members |-> <<>>,
                           properties |-> heritages.properties]
                     ELSE CompileTypeElements(node.members, Top.properties,
                                              strictNullChecks)} :
     \E tried \in {~GetTag(node, NoSchema) /\ ~node.typeParameters} :
     \E st \in {IF tried /\ ~members.thrown
                THEN WriteInterface(St, f, [name |-> node.name,
                                            heritages |-> heritages.types,
                                            members |-> members.members],
                                    GetTag(node, Schema))
                ELSE St} :
     \E warned \in {~GetTag(node, NoSchema)
                    /\ (node.typeParameters \/ members.thrown \/ st.err # NoError)} :
        /\ Commit(st)
        /\ IF warned /\ GetTag(node, Schema)
           THEN Throw("Unable to compile interface") /\ UNCHANGED <<contexts, visited>>
           ELSE /\ NextStatementWith(IF tried THEN members.properties ELSE Top.properties)
                /\ UNCHANGED <<pc, error>>
        /\ warnings' = IF warned /\ ~GetTag(node, Schema)
                       THEN Append(warnings, <<f, node.name>>)
                       ELSE warnings
  /\ UNCHANGED <<typeVars, input, indentation, renderContexts, schemas, finalized, rootIdx,
                 finIdx, renIdx, result, written, rendered>>

\* compileTypeAliasDeclaration on the syntax tree
CompileTypeAliasNode ==
  /\ InStatements
  /\ Statement.kind = "type-node"
  /\ \E node \in {Statement}, f \in {Top.schema} :
     \E type \in {WithPropertyTags(CompileTsType(node.type, node.name, strictNullChecks),
                                   PropertyRegex(Top.properties))} :
     \E tried \in {~GetTag(node, NoSchema)}, thrown \in {type.type = "throw"} :
     \E st \in {IF tried /\ ~thrown
                THEN WriteType(St, f, [name |-> node.name, type |-> type],
                               GetTag(node, Schema))
                ELSE St} :
     \E warned \in {tried /\ (thrown \/ st.err # NoError)} :
        /\ Commit(st)
        /\ IF warned /\ GetTag(node, Schema)
           THEN Throw("Unable to compile type alias") /\ UNCHANGED <<contexts, visited>>
           ELSE /\ NextStatementWith(IF tried /\ thrown
                                     THEN Top.properties \o type.unpopped
                                     ELSE Top.properties)
                /\ UNCHANGED <<pc, error>>
        /\ warnings' = IF warned /\ ~GetTag(node, Schema)
                       THEN Append(warnings, <<f, node.name>>)
                       ELSE warnings
  /\ UNCHANGED <<typeVars, input, indentation, renderContexts, schemas, finalized, rootIdx,
                 finIdx, renIdx, result, written, rendered>>

DeclarationNext ==
  \/ VisitRoot
  \/ CompileInterfaceNode
  \/ CompileTypeAliasNode
  \/ LeaveSourceFile

DeclarationSpec == DeclarationInit /\ [][DeclarationNext]_vars

(***************************************************************************)
(* The declaration graph: an edge leads from a stored declaration to       *)
(* every name its IR tree references, and from a name bound by an import   *)
(* or a re-export to the bound name in the origin file.                    *)
(***************************************************************************)
RECURSIVE NamesIn(_), NamesInAll(_)
\* the names of the type-reference / type-access nodes of an IR tree
NamesIn(type) ==
  CASE type.type \in {"type-reference", "type-access"} -> {type.name}
    [] type.type = "array" -> NamesIn(type.elem)
    [] type.type = "object" -> NamesInAll(MemberTypes(type.members))
    [] type.type = "tuple" -> NamesInAll(type.of) \cup NamesInAll(type.restElement)
    [] type.type \in {"union", "intersection"} -> NamesInAll(type.of)
    [] OTHER -> {}

NamesInAll(types) ==
  IF types = <<>> THEN {} ELSE NamesIn(Head(types)) \cup NamesInAll(Tail(types))

Range(seq) == {seq[i] : i \in DOMAIN seq}

\* the declarations stored in file f under name n
Declares(f, n) ==
  \E d \in Range(schema[f].interfaces) \cup Range(schema[f].types)
             \cup Range(schema[f].enums) : d.name = n

\* the names the declarations of f named n reference
ReferencesOf(f, n) ==
  UNION ({NamesInAll(d.heritages) \cup NamesInAll(MemberTypes(d.members)) :
            d \in {x \in Range(schema[f].interfaces) : x.name = n}}
         \cup {NamesIn(d.type) : d \in {x \in Range(schema[f].types) : x.name = n}})

HasSchema(f) == \E i \in DOMAIN schemas : schemas[i] = f

\* the (file, name) an import or re-export binding of f with local name n stands for
OriginsOf(f, n) ==
  {<<b.file.path, BoundOrName(b)>> :
     b \in {x \in Range(Flatten(schema[f].imports))
                   \cup Range(SelectSeq(Flatten(schema[f].exports), HasFile)) :
              x.name = n /\ HasSchema(x.file.path)}}

Successors(node) ==
  {<<node[1], r>> : r \in ReferencesOf(node[1], node[2])} \cup OriginsOf(node[1], node[2])

RECURSIVE ReachableFrom(_)
ReachableFrom(S) ==
  LET more == S \cup UNION {Successors(node) : node \in S}
  IN IF more = S THEN S ELSE ReachableFrom(more)

\* the declarations written with shouldRender = true so far
IsForcedStatement(node) ==
  /\ node.kind \in {"interface", "type", "enum"}
  /\ GetTag(node, Schema)
  /\ IF node.kind = "enum" THEN ~GetTag(node, NoSchema) ELSE Outcome(node) = "write"

ForcedRoots ==
  UNION {{<<f, Statements(f)[i].name>> :
            i \in {j \in 1..visited[f] : IsForcedStatement(Statements(f)[j])}} :
         f \in {g \in DOMAIN input.src : HasSchema(g)}}

\* phase two's finalize loop has ended and nothing was thrown
AfterFinalize == pc \in {"compile", "returned", "done"} /\ FinalizeDone /\ error = NoError

\* C1: after finalize on every File Schema, every name reachable from a forced
\* declaration is in the referencedNames of the file that declares it.
ReachabilityClosure ==
  AfterFinalize =>
    \A node \in ReachableFrom(ForcedRoots) :
      Declares(node[1], node[2]) => node[2] \in referencedNames[node[1]]

\* the import and re-export bindings of f that name a file with a File Schema
BindingsOf(f) ==
  {x \in Range(Flatten(schema[f].imports))
         \cup Range(SelectSeq(Flatten(schema[f].exports), HasFile)) :
     HasSchema(x.file.path)}

\* C5: after finalize, for every import or re-export binding whose local name is
\* referenced in the importing file, use was called on the origin File Schema and
\* the origin declaration is in the origin file's referencedNames.
FinalizeReachesOrigins ==
  AfterFinalize =>
    \A f \in Range(schemas) : \A b \in BindingsOf(f) :
      b.name \in referencedNames[f] =>
        /\ <<f, b.file.path, BoundOrName(b)>> \in Range(uses)
        /\ Declares(b.file.path, BoundOrName(b)) =>
             BoundOrName(b) \in referencedNames[b.file.path]

\* the declarations that appear in the rendered module text of the result
RenderedDeclarations ==
  UNION {{<<result[i].schemaFile, result[i].content[k].name>> :
            k \in {j \in DOMAIN result[i].content :
                     result[i].content[j].kind \in {"interface", "type", "enum"}}} :
         i \in DOMAIN result}

\* C2: a name is in a file's referencedNames only if it is forced or reachable
\* from a forced declaration, and only names in referencedNames are rendered: no
\* declaration unreachable from every forced root appears in the output.
NothingUnreachableRendered ==
  /\ \A f \in Files : \A n \in referencedNames[f] :
       <<f, n>> \in ReachableFrom(ForcedRoots)
  /\ \A node \in RenderedDeclarations :
       /\ node[2] \in referencedNames[node[1]]
       /\ node \in ReachableFrom(ForcedRoots)

\* the output is written, it holds a rendered declaration, and a declaration of
\* the same file that no forced root reaches was left out of it
UnreachableLeftOut ==
  /\ pc = "done"
  /\ \E node \in RenderedDeclarations :
       /\ node[1] \in written
       /\ \E n \in Names :
            /\ Declares(node[1], n)
            /\ <<node[1], n>> \notin ReachableFrom(ForcedRoots)
            /\ <<node[1], n>> \notin RenderedDeclarations

\* the declaration da of fa references, by a name fa binds to it, the declaration db of fb
RefersAcross(fa, da, fb, db) ==
  /\ fa # fb
  /\ HasSchema(fa) /\ HasSchema(fb)
  /\ Declares(fa, da) /\ Declares(fb, db)
  /\ \E x \in ReferencesOf(fa, da) : <<fb, db>> \in OriginsOf(fa, x)

\* two declarations of two files that reference each other, one of them forced
MutualPair(fa, da, fb, db) ==
  /\ RefersAcross(fa, da, fb, db)
  /\ RefersAcross(fb, db, fa, da)
  /\ <<fa, da>> \in ForcedRoots \/ <<fb, db>> \in ForcedRoots

\* the rendered items of declaration n of file f in the result
RenderedItems(f, n) ==
  UNION {{result[i].content[k] :
            k \in {j \in DOMAIN result[i].content :
                     /\ result[i].content[j].kind \in {"interface", "type", "enum"}
                     /\ result[i].content[j].name = n}} :
         i \in {j \in DOMAIN result : result[j].schemaFile = f}}

\* the names an item uses through tokens of kind t
TokenNames(item, kinds) ==
  {item.toks[i].v : i \in {j \in DOMAIN item.toks : item.toks[j].t \in kinds}}

\* the names f binds, by import or re-export, to a declaration of another file
BoundNames(f) == {n \in Names : OriginsOf(f, n) # {}}

ExpandedAtMostOnce ==
  \A i \in DOMAIN expanded, j \in DOMAIN expanded : i # j => expanded[i] # expanded[j]

\* C4: every call of use(name) terminates, whatever cycles the declarations and
\* the import / re-export tables hold, and each declaration's heritages and
\* members are expanded at most once in a run.
UseTerminates ==
  /\ error # "RangeError"
  /\ ExpandedAtMostOnce

\* C6: once a fatal error is raised, the run is over without a result: compile
\* has not returned and no output file is written; an output file is written
\* only after compile has returned, every file rendered, without an error.
NoOutputOnFatalError ==
  /\ error # NoError => pc = "aborted" /\ written = {}
  /\ pc = "aborted" => error # NoError /\ written = {}
  /\ written # {} =>
       /\ pc = "done" /\ error = NoError
       /\ FinalizeDone /\ renIdx > Len(schemas)
       /\ written = {result[i].schemaFile : i \in DOMAIN result}

\* render threw on a later file after an earlier file's text was already in
\* `result`: nothing of it is written
AbortedWithPartialResult ==
  /\ pc = "aborted"
  /\ error = "not supported"
  /\ result # <<>>
  /\ written = {}

\* a declaration without @schema and @noschema whose compilation fails: a generic
\* interface, or one holding a construct the compiler throws on
FailsUntagged(node) ==
  /\ node.kind \in {"interface", "type"}
  /\ ~GetTag(node, Schema) /\ ~GetTag(node, NoSchema)
  /\ node.throws \/ (node.kind = "interface" /\ node.typeParameters)

\* the statement loop is at a declaration that fails without @schema
AtFailingUntagged == InStatements /\ FailsUntagged(Statement)

\* the step over such a declaration: nothing recorded, a warning, the loop moves on
SkippedWithWarning ==
  /\ schema' = schema
  /\ referencedNames' = referencedNames
  /\ pc' = "compile" /\ error' = NoError
  /\ warnings' = Append(warnings, <<Top.schema, Statement.name>>)
  /\ contexts' = [contexts EXCEPT ![Len(contexts)].pos = @ + 1]

\* phase one over: every statement of every visited file was compiled, and every
\* declaration that compiles is recorded in its file's tables
AllCompiledAndRecorded ==
  PhaseOneDone =>
    \A f \in Range(schemas) :
      /\ visited[f] = Len(Statements(f))
      /\ \A i \in DOMAIN Statements(f) :
           (/\ Statements(f)[i].kind \in {"interface", "type"}
            /\ ~FailsUntagged(Statements(f)[i])
            /\ ~GetTag(Statements(f)[i], NoSchema))
           => Declares(f, Statements(f)[i].name)

\* C7: a declaration without @schema that fails to compile does not abort the
\* run: it is not recorded, the declaration tables and referencedNames stay as
\* they were, a warning is emitted, and the declarations that follow, in this
\* file and the others, are still compiled and recorded.
FailingDeclarationSkipped ==
  /\ [][AtFailingUntagged => SkippedWithWarning]_vars
  /\ []AllCompiledAndRecorded

\* the run ended after a warning for a failed declaration, with a declaration
\* that follows it in the same file recorded
LaterDeclarationRecorded ==
  /\ pc = "done"
  /\ warnings # <<>>
  /\ \E f \in Range(schemas) : \E i \in DOMAIN Statements(f), j \in DOMAIN Statements(f) :
       /\ i < j
       /\ FailsUntagged(Statements(f)[i])
       /\ ~Declares(f, Statements(f)[i].name)
       /\ Statements(f)[j].kind \in {"interface", "type"}
       /\ ~FailsUntagged(Statements(f)[j])
       /\ Declares(f, Statements(f)[j].name)

\* the type aliases of f whose body is a tuple and whose name is in referencedNames
ReachableTuples(f) ==
  {d \in Range(schema[f].types) : d.type.type = "tuple" /\ d.name \in referencedNames[f]}

\* render() has been called on f
RenderCalled(f) == \E i \in DOMAIN rendered : rendered[i] = f

\* C8: a reachable tuple declaration renders under Dialect J; under Dialect Y it
\* fails, recoverably when the declaration is not forced (a warning, the run goes
\* on and produces output for the other declarations), fatally when it is forced.
TupleFailureRecoverable ==
  \A f \in Range(schemas) : \A d \in ReachableTuples(f) :
    RenderCalled(f) =>
      IF IsJoi(input.render)
      THEN /\ pc # "aborted"
           /\ <<f, d.name>> \in RenderedDeclarations
      ELSE IF <<f, d.name>> \in ForcedRoots
           THEN pc = "aborted"
           ELSE /\ pc # "aborted"
                /\ <<f, d.name>> \notin RenderedDeclarations
                /\ \E i \in DOMAIN warnings : warnings[i] = <<f, d.name>>

\* the name is a declaration of f or the local name of one of its bindings
Resolvable(f, n) ==
  \/ Declares(f, n)
  \/ \E b \in Range(Flatten(schema[f].imports)) \cup Range(Flatten(schema[f].exports)) :
       b.name = n

\* C9: use(name) on a name that matches no declaration and no import or
\* re-export binding of the file aborts the run instead of marking the name:
\* once every file is visited, no such name is in a file's referencedNames.
UnresolvableUseIsFatal ==
  PhaseOneDone =>
    \A f \in Range(schemas) : \A n \in referencedNames[f] : Resolvable(f, n)

\* compileSourceFile would give the file a File Schema
Eligible(file) == Exists(file) /\ ~EndsWithSuffix(file)

\* the files the statement's relative import or re-export leads to
FilesOf(node) ==
  IF \/ node.kind = "import" /\ FollowsImport(node)
     \/ node.kind = "export" /\ FollowsExport(node)
  THEN {node.moduleSpecifier.path}
  ELSE {}

\* every root file and every file reached through relative imports and
\* re-exports has a File Schema and all its statements compiled
AllVisited ==
  /\ contexts = <<>>
  /\ \A i \in DOMAIN input.rootFileNames :
       Eligible(input.rootFileNames[i]) => HasSchema(input.rootFileNames[i])
  /\ \A f \in Range(schemas) :
       /\ visited[f] = Len(Statements(f))
       /\ \A i \in DOMAIN Statements(f) : \A g \in FilesOf(Statements(f)[i]) :
            Eligible(g) => HasSchema(g)

AllFinalized == \A f \in Range(schemas) : finalized[f]

\* C10: finalize is called on no File Schema before every root file and every
\* file reached from it is completely visited, and render is called on no File
\* Schema before finalize has returned on every File Schema.
PhasesInOrder ==
  /\ [][(finIdx' # finIdx \/ finalized' # finalized \/ uses' # uses) => AllVisited]_vars
  /\ [][rendered' # rendered => AllVisited /\ AllFinalized]_vars
  /\ []((finIdx > 1 \/ uses # <<>>) => AllVisited)
  /\ [](rendered # <<>> => AllFinalized)

\* a run over several files, one compiled from inside another, that finalized
\* and rendered them all
SeveralFilesRendered ==
  /\ pc = "done"
  /\ Len(schemas) >= 2
  /\ Len(rendered) = Len(schemas)
  /\ uses # <<>>
  /\ AllFinalized

\* the declaration the compiler hands to write* for a statement
DeclarationOf(node) ==
  CASE node.kind = "interface" ->
         [name |-> node.name, heritages |-> node.heritages, members |-> node.members]
    [] node.kind = "type" -> [name |-> node.name, type |-> node.body]
    [] node.kind = "enum" -> [name |-> node.name]

\* a declaration statement that reaches writeInterface / writeType / writeEnum
ReachesWrite(node) ==
  /\ node.kind \in {"interface", "type", "enum"}
  /\ ~GetTag(node, NoSchema)
  /\ node.kind = "enum" \/ (~node.throws /\ ~(node.kind = "interface" /\ node.typeParameters))

\* the table of a File Schema a statement of the kind is written to
TableOf(sch, kind) ==
  CASE kind = "interface" -> sch.interfaces
    [] kind = "type" -> sch.types
    [] kind = "enum" -> sch.enums
    [] kind = "import" -> sch.imports
    [] kind = "export" -> sch.exports

TableKinds == {"interface", "type", "enum", "import", "export"}

RECURSIVE PassedOnIn(_), PassedOnInAll(_)
\* the names of an IR tree at the positions use() hands on: every position but a
\* tuple's rest element
PassedOnIn(type) ==
  CASE type.type \in {"type-reference", "type-access"} -> {type.name}
    [] type.type = "array" -> PassedOnIn(type.elem)
    [] type.type = "object" -> PassedOnInAll(MemberTypes(type.members))
    [] type.type \in {"tuple", "union", "intersection"} -> PassedOnInAll(type.of)
    [] OTHER -> {}

PassedOnInAll(types) ==
  IF types = <<>> THEN {} ELSE PassedOnIn(Head(types)) \cup PassedOnInAll(Tail(types))

\* the names a declaration references directly
DirectNames(node) ==
  CASE node.kind = "interface" ->
         PassedOnInAll(node.heritages) \cup PassedOnInAll(MemberTypes(node.members))
    [] node.kind = "type" -> PassedOnIn(node.body)
    [] OTHER -> {}

\* the step over a declaration statement that reaches write*: the declaration is
\* appended to its table, nothing else is; without @schema referencedNames is
\* unchanged, with @schema the name is marked (and, if it was not marked
\* before, so is every name the declaration references)
DeclarationWritten ==
  LET node == Statement
      f == Top.schema
  IN /\ TableOf(schema'[f], node.kind) = Append(TableOf(schema[f], node.kind),
                                                DeclarationOf(node))
     /\ \A k \in TableKinds \ {node.kind} : TableOf(schema'[f], k) = TableOf(schema[f], k)
     /\ \A g \in Files \ {f} : schema'[g] = schema[g] /\ referencedNames'[g] = referencedNames[g]
     /\ IF GetTag(node, Schema)
        THEN /\ node.name \in referencedNames'[f]
             /\ referencedNames[f] \subseteq referencedNames'[f]
             /\ node.name \notin referencedNames[f] =>
                  DirectNames(node) \subseteq referencedNames'[f]
             /\ node.name \in referencedNames[f] => referencedNames'[f] = referencedNames[f]
        ELSE referencedNames'[f] = referencedNames[f]

\* a step that changes an import or export table appends one declaration to it
\* and changes nothing else of the File Schemas
BindingsOnlyAppended ==
  \A f \in Files : \A k \in {"import", "export"} :
    TableOf(schema'[f], k) # TableOf(schema[f], k) =>
      /\ Len(TableOf(schema'[f], k)) = Len(TableOf(schema[f], k)) + 1
      /\ SubSeq(TableOf(schema'[f], k), 1, Len(TableOf(schema[f], k))) = TableOf(schema[f], k)
      /\ \A j \in TableKinds \ {k} : TableOf(schema'[f], j) = TableOf(schema[f], j)
      /\ \A g \in Files \ {f} : schema'[g] = schema[g]
      /\ referencedNames' = referencedNames

\* C11: writeInterface, writeType and writeEnum append the declaration whether or
\* not shouldRender is set; without it referencedNames is unchanged, with it the
\* declaration's name is marked when the call returns; writeImport and
\* writeExport only append to their table and never change referencedNames.
WriteFrameEffects ==
  /\ [][(InStatements /\ ReachesWrite(Statement)) => DeclarationWritten]_vars
  /\ [][BindingsOnlyAppended]_vars

\* a file holds an import declaration, a stored declaration that is not marked
\* and a stored declaration that is
WrittenBothWays ==
  \E f \in Files :
    /\ schema[f].imports # <<>>
    /\ \E d \in Range(schema[f].interfaces) : d.name \notin referencedNames[f]
    /\ \E d \in Range(schema[f].interfaces) :
         d.name \in referencedNames[f] /\ DirectNames([kind |-> "interface"] @@ d) # {}

\* out is the subsequence of seq made of the elements that satisfy Keep, in order
IsSubsequenceOf(out, seq, Keep(_)) ==
  \E pick \in [DOMAIN out -> DOMAIN seq] :
    /\ \A k \in DOMAIN out, l \in DOMAIN out : k < l => pick[k] < pick[l]
    /\ {pick[k] : k \in DOMAIN out} = {i \in DOMAIN seq : Keep(seq[i])}
    /\ \A k \in DOMAIN out : out[k] = seq[pick[k]]

\* out holds, in stored order, the declarations of tab that have a binding whose
\* local name is in refs, each cut down to those bindings, in stored order
IsProjection(out, tab, refs) ==
  LET Used(binding) == binding.name \in refs
      HasUsed(declaration) ==
        \E j \in DOMAIN declaration.namedBindings : Used(declaration.namedBindings[j])
  IN \E pick \in [DOMAIN out -> DOMAIN tab] :
       /\ \A k \in DOMAIN out, l \in DOMAIN out : k < l => pick[k] < pick[l]
       /\ {pick[k] : k \in DOMAIN out} = {i \in DOMAIN tab : HasUsed(tab[i])}
       /\ \A k \in DOMAIN out :
            /\ out[k].file = tab[pick[k]].file
            /\ DOMAIN out[k] = {"file", "namedBindings"}
            /\ IsSubsequenceOf(out[k].namedBindings, tab[pick[k]].namedBindings, Used)

\* C12: getUsedImports and getUsedExports return, in stored order, exactly the
\* bindings whose local name is in referencedNames, without the declarations
\* left with no binding; render, which calls them, leaves the tables and
\* referencedNames as they were.
UsedBindingsProjected ==
  /\ [](\A f \in Files :
          /\ IsProjection(GetUsedImports(St, f), schema[f].imports, referencedNames[f])
          /\ IsProjection(GetUsedExports(St, f), schema[f].exports, referencedNames[f]))
  /\ [][rendered' # rendered => schema' = schema /\ referencedNames' = referencedNames]_vars

\* a file rendered with one import declaration cut down to a part of its
\* bindings, another file with an import declaration dropped whole
ImportsCutDown ==
  /\ pc = "done"
  /\ \E f \in Range(schemas) :
       /\ GetUsedImports(St, f) # <<>>
       /\ Len(Flatten(GetUsedImports(St, f))) < Len(Flatten(schema[f].imports))
  /\ \E f \in Range(schemas) :
       schema[f].imports # <<>> /\ GetUsedImports(St, f) = <<>>

(***************************************************************************)
(* C13: render() is repeatable.  A render() that returns leaves the        *)
(* declaration tables, referencedNames, the nesting counter and the        *)
(* render-context stack as it found them, and calling render() again on    *)
(* the same File Schema returns the same text (absent again when it was    *)
(* absent).  A render() that throws ends the run and is not covered.       *)
(***************************************************************************)
Returned == {schemas[i] : i \in 1..(renIdx - 1)}

OutputOf(f) == {i \in DOMAIN result : result[i].schemaFile = f}

SameAsFirstRender(f) ==
  LET again == Render(St, f, input.render)
  IN /\ again.ind = indentation[f]
     /\ again.ctx = renderContexts[f]
     /\ IF OutputOf(f) = {} THEN again.kind = "null"
        ELSE /\ again.kind = "text"
             /\ \A i \in OutputOf(f) : result[i].content = again.content

RenderRestores ==
  (renIdx' = renIdx + 1) =>
     /\ schema' = schema
     /\ referencedNames' = referencedNames
     /\ indentation' = indentation
     /\ renderContexts' = renderContexts

RenderIdempotent ==
  /\ [][RenderRestores]_vars
  /\ [](\A f \in Returned : SameAsFirstRender(f))

\* a returned render whose text was written two levels deep
NestedTextRendered ==
  \E i \in DOMAIN result :
    /\ result[i].schemaFile \in Returned
    /\ \E j \in DOMAIN result[i].content :
         \E k \in DOMAIN result[i].content[j].toks :
           result[i].content[j].toks[k] = Tok("text", Padding(2))
    /\ Len(result[i].content) >= 2

(***************************************************************************)
(* C14: render() returns absent exactly when nothing stored in the file is *)
(* reachable: no stored enum, interface, type alias, import binding or     *)
(* export binding has its name in referencedNames.  compile() has an       *)
(* output entry for a rendered file exactly when its render() was not      *)
(* absent.                                                                 *)
(***************************************************************************)
StoredNames(f) ==
  {schema[f].enums[i].name : i \in DOMAIN schema[f].enums}
    \cup {schema[f].interfaces[i].name : i \in DOMAIN schema[f].interfaces}
    \cup {schema[f].types[i].name : i \in DOMAIN schema[f].types}
    \cup {b.name : b \in Range(Flatten(schema[f].imports))}
    \cup {b.name : b \in Range(Flatten(schema[f].exports))}

NothingReachable(f) == StoredNames(f) \cap referencedNames[f] = {}

AbsentIffNothingReachable ==
  /\ \A f \in Files : (Render(St, f, input.render).kind = "null") <=> NothingReachable(f)
  /\ \A f \in Returned : (OutputOf(f) # {}) <=> (Render(St, f, input.render).kind = "text")

\* one rendered file with stored declarations came out absent, another has an entry
AbsentAndPresent ==
  \E f, g \in Returned :
    /\ StoredNames(f) # {} /\ NothingReachable(f) /\ OutputOf(f) = {}
    /\ OutputOf(g) # {}

(***************************************************************************)
(* C15: in the rendered text of a file, a reachable interface with a       *)
(* type-reference heritage to another reachable interface of the same file *)
(* (one that does not extend it back) is emitted after that base           *)
(* interface, whichever of the two was declared first.                     *)
(***************************************************************************)
Extends(d, b) ==
  \E i \in DOMAIN d.heritages :
    d.heritages[i].type = "type-reference" /\ d.heritages[i].name = b.name

\* the positions in the text of f at which the interface named n is emitted
EmittedAt(content, n) ==
  {i \in DOMAIN content : content[i].kind = "interface" /\ content[i].name = n}

BaseEmittedFirst ==
  \A r \in DOMAIN result :
    LET f == result[r].schemaFile
        reachable == {d \in Range(schema[f].interfaces) : d.name \in referencedNames[f]}
    IN \A d, b \in reachable :
         (Extends(d, b) /\ ~Extends(b, d)) =>
            \A i \in EmittedAt(result[r].content, d.name),
               j \in EmittedAt(result[r].content, b.name) : j < i

(***************************************************************************)
(* C16: how a rendered declaration uses the definitions it names.          *)
(***************************************************************************)
RECURSIVE UsesIn(_), UsesInAll(_)
\* the type-reference / type-access nodes of an IR tree, in source order, each
\* as the deferred lookup it should be rendered as
UsesIn(type) ==
  CASE type.type = "type-reference" -> <<Tok("lazy", type.name)>>
    [] type.type = "type-access" -> <<Tok("access", type.name)>>
    [] type.type = "array" -> UsesIn(type.elem)
    [] type.type = "object" -> UsesInAll(MemberTypes(type.members))
    [] type.type = "tuple" -> UsesInAll(type.of) \o UsesInAll(type.restElement)
    [] type.type = "union" -> UsesInAll(type.of)
    [] OTHER -> <<>>

UsesInAll(types) ==
  IF types = <<>> THEN <<>> ELSE UsesIn(Head(types)) \o UsesInAll(Tail(types))

\* the uses of named definitions in a rendered item, in text order
UsesOf(item) ==
  SelectSeq(item.toks, LAMBDA tok : tok.t \in {"lazy", "access", "concat"})

\* the rendered items of the stored interfaces and type aliases, with their declaration
RenderedWithDeclaration ==
  UNION {UNION {{[item |-> result[r].content[k], heritages |-> d.heritages,
                  body |-> MemberTypes(d.members)] :
                   d \in {x \in Range(schema[result[r].schemaFile].interfaces) :
                            x.name = result[r].content[k].name}}
                \cup {[item |-> result[r].content[k], heritages |-> <<>>,
                       body |-> <<d.type>>] :
                        d \in {x \in Range(schema[result[r].schemaFile].types) :
                                 x.name = result[r].content[k].name}} :
                k \in {j \in DOMAIN result[r].content :
                         result[r].content[j].kind \in {"interface", "type"}}} :
         r \in DOMAIN result}

\* C16 as stated: every type-reference / type-access of a rendered declaration,
\* those of an interface's heritage clause included, is emitted as a deferred
\* (lazy) lookup and never as a direct use of the identifier.
EveryUseDeferred ==
  \A x \in RenderedWithDeclaration :
    UsesOf(x.item) = UsesInAll(x.heritages) \o UsesInAll(x.body)

\* C16, amended: every type-reference / type-access in a member type or an alias
\* body of a rendered declaration is emitted as a deferred (lazy) lookup, in
\* source order; every type-reference heritage of an interface is emitted as a
\* direct `.concat(<Name>Schema)` ahead of the members.
UsesDeferredExceptHeritage ==
  \A x \in RenderedWithDeclaration :
    UsesOf(x.item) = FlattenHeritage(x.heritages) \o UsesInAll(x.body)

\* an interface rendered with a direct heritage use and a deferred indexed access
HeritageAndAccessRendered ==
  \E x \in RenderedWithDeclaration :
    /\ \E i \in DOMAIN x.item.toks : x.item.toks[i].t = "concat"
    /\ \E i \in DOMAIN x.item.toks : x.item.toks[i].t = "access"

(***************************************************************************)
(* C17: compiling an enum, interface or type alias annotated @noschema     *)
(* adds nothing to any table of its File Schema and nothing to             *)
(* referencedNames, whatever else is annotated on it (@schema included)    *)
(* and whether or not it would have compiled: no warning, no error.        *)
(***************************************************************************)
AtNoSchemaDeclaration ==
  /\ InStatements
  /\ Statement.kind \in {"enum", "interface", "type"}
  /\ NoSchema \in Statement.tags

PassedOver ==
  /\ schema' = schema
  /\ referencedNames' = referencedNames
  /\ warnings' = warnings
  /\ error' = error
  /\ pc' = pc

NoSchemaNeverWritten == [][AtNoSchemaDeclaration => PassedOver]_vars

\* a run that finished after passing over a declaration tagged both @schema and
\* @noschema that would not have compiled
ForcedNoSchemaPassedOver ==
  /\ pc = "done"
  /\ \E f \in Files :
       \E i \in 1..visited[f] :
         /\ Statements(f)[i].kind \in {"interface", "type"}
         /\ {Schema, NoSchema} \subseteq Statements(f)[i].tags
         /\ \/ Statements(f)[i].throws
            \/ Statements(f)[i].kind = "interface" /\ Statements(f)[i].typeParameters
         /\ ~Declares(f, Statements(f)[i].name)

(***************************************************************************)
(* C18: a nullable type compiled under strict nullability.                 *)
(***************************************************************************)
IsMarker(t) == HasFlag(t, {"Null", "Undefined"})

\* a union, presented under strictNullChecks, with null or undefined among its
\* members and at least one other member
NullableCompiled ==
  /\ pc = "compiled"
  /\ strictNullChecks
  /\ HasFlag(tsType, {"Union"})
  /\ \E i \in DOMAIN tsType.types : IsMarker(tsType.types[i])
  /\ \E i \in DOMAIN tsType.types : ~IsMarker(tsType.types[i])

ContainsNull == \E i \in DOMAIN tsType.types : HasFlag(tsType.types[i], {"Null"})
ContainsUndefined == \E i \in DOMAIN tsType.types : HasFlag(tsType.types[i], {"Undefined"})

\* the source type without its null and undefined members
CoreOf(type) ==
  LET members == SelectSeq(type.types, LAMBDA t : ~IsMarker(t))
  IN IF Len(members) = 1 THEN members[1] ELSE TsUnion(members)

\* a SchemaType without its `required` flag
Kind(node) == [node EXCEPT !.required = "undefined"]

\* a SchemaType with the alternatives of every union as a set
RECURSIVE Unordered(_)
Unordered(node) ==
  IF node.type = "union"
  THEN [type |-> "union", required |-> node.required,
        of |-> {Unordered(node.of[i]) : i \in DOMAIN node.of}]
  ELSE node

\* the same members in another order
Reordered(type) ==
  {TsUnion(types) :
     types \in {t \in [DOMAIN type.types -> Range(type.types)] : Range(t) = Range(type.types)}}

SameForEveryOrder ==
  \A t \in Reordered(tsType) :
    Unordered(CompileTsType(t, ignoreRef, strictNullChecks)) = Unordered(schemaType)

ExactlyNullCompiled == pc = "compiled" /\ tsType \in {TsNull, TsUndefined}

\* C19 as stated: the result is the schema node of that kind with required = true.
ExactlyNullRequired ==
  ExactlyNullCompiled =>
    schemaType = Leaf(IF tsType = TsNull THEN "null" ELSE "undefined")

\* C19, amended: exactly null compiles to the null node with required = true;
\* exactly undefined compiles to the undefined node with required = false, the
\* flag the sub-compiler set being kept; with or without strict nullability.
ExactlyNullKeepsFlag ==
  ExactlyNullCompiled =>
    schemaType = IF tsType = TsNull THEN Leaf("null") ELSE Optional("undefined")

\* exactly undefined has been compiled without strict nullability
UndefinedCompiled ==
  /\ pc = "compiled"
  /\ tsType = TsUndefined
  /\ ~strictNullChecks
  /\ schemaType.type = "undefined"

(***************************************************************************)
(* C20: a union with both boolean literals true and false among its        *)
(* alternatives compiles to a union with a single boolean alternative in   *)
(* place of the two literals: no literal true or false alternative         *)
(* remains, the union has one alternative fewer than the source, and the   *)
(* other alternatives are all kept, in their order, whatever the positions *)
(* of true and false.  The source is the union as compileNonNullableType   *)
(* receives it (null and undefined are stripped and handled before); the   *)
(* union true | false alone is the type boolean and compiles to boolean.   *)
(***************************************************************************)
\* the union compileNonNullableType receives, and the union it returns
SourceUnion == GetNonNullableType(tsType, strictNullChecks)
CompiledUnion == IF strictNullChecks /\ ContainsNull THEN schemaType.of[1] ELSE schemaType

BothLiteralsCompiled ==
  /\ pc = "compiled"
  /\ HasFlag(tsType, {"Union"})
  /\ SourceUnion.flags = {"Union"}
  /\ {TsTrue, TsFalse} \subseteq Range(SourceUnion.types)

IsBooleanLiteral(node) == node.type = "literal" /\ node.valueType = "boolean"

BooleanLiteralsMerged ==
  BothLiteralsCompiled =>
    LET of == CompiledUnion.of
        others == SelectSeq(SourceUnion.types, LAMBDA t : t \notin {TsTrue, TsFalse})
    IN /\ CompiledUnion.type = "union"
       /\ Cardinality({i \in DOMAIN of : of[i].type = "boolean"}) = 1
       /\ \A i \in DOMAIN of : ~IsBooleanLiteral(of[i])
       /\ Len(of) = Len(SourceUnion.types) - 1
       /\ SelectSeq(of, LAMBDA node : node.type # "boolean")
            = [i \in DOMAIN others |-> CompileTsType(others[i], "", strictNullChecks)]

\* false stands before true, with other alternatives around them
FalseBeforeTrueMerged ==
  /\ BothLiteralsCompiled
  /\ Len(tsType.types) = 4
  /\ tsType.types[1] = TsFalse
  /\ tsType.types[3] = TsTrue
  /\ Len(schemaType.of) = 3
  /\ schemaType.of[2].type = "boolean"

(***************************************************************************)
(* C21: a tuple type with N positional elements and minimum length M <= N  *)
(* compiles to a tuple of N elements in source order; the elements at the  *)
(* first M positions have required = true and the others required = false, *)
(* whatever flag the element's own compilation produced; a rest element is *)
(* compiled apart and is not among the N elements.                         *)
(***************************************************************************)
TupleCompiled == pc = "compiled" /\ IsTupleReference(tsType)

TupleElementsRequired ==
  TupleCompiled =>
    LET n == Len(tsType.typeArguments) - (IF tsType.hasRestElement THEN 1 ELSE 0)
    IN /\ schemaType.type = "tuple"
       /\ Len(schemaType.of) = n
       /\ \A i \in 1..n :
            /\ Kind(schemaType.of[i]) = Kind(CompileTsType(tsType.typeArguments[i], "", TRUE))
            /\ schemaType.of[i].required = IF i <= tsType.minLength THEN "true" ELSE "false"
       /\ IF tsType.hasRestElement
          THEN schemaType.restElement = <<CompileTsType(tsType.typeArguments[n + 1], "", TRUE)>>
          ELSE schemaType.restElement = <<>>

\* a tuple whose own flags were all overridden: an undefined element below the
\* minimum length, a nullable one above it, and a rest element
TupleFlagsOverridden ==
  /\ TupleCompiled
  /\ tsType.hasRestElement
  /\ tsType.minLength = 1
  /\ Len(tsType.typeArguments) = 3
  /\ tsType.typeArguments[1] = TsUndefined
  /\ tsType.typeArguments[2] = TsUnion(<<TsString, TsNull>>)
  /\ schemaType.of[1].required = "true"
  /\ schemaType.of[2].required = "false"

(***************************************************************************)
(* C22: every interface declaration and every object IR node produced by   *)
(* the compiler has at most one member that carries an indexer, also for   *)
(* an interface that declares a string and a number index signature.       *)
(***************************************************************************)
Indexers(members) == {i \in DOMAIN members : members[i].indexer # ""}

\* the member lists of the object nodes that are the type of a member or of an alias
ObjectMemberLists(f) ==
  {schema[f].types[i].type.members :
     i \in {j \in DOMAIN schema[f].types : schema[f].types[j].type.type = "object"}}
  \cup UNION {{d.members[i].type.members :
                 i \in {j \in DOMAIN d.members : d.members[j].type.type = "object"}} :
              d \in Range(schema[f].interfaces)}

AtMostOneIndexer ==
  \A f \in Files :
    /\ \A d \in Range(schema[f].interfaces) : Cardinality(Indexers(d.members)) <= 1
    /\ \A members \in ObjectMemberLists(f) : Cardinality(Indexers(members)) <= 1

(***************************************************************************)
(* C23: only import and export declarations whose module specifier starts  *)
(* with the relative-path marker are followed; one from a package          *)
(* specifier adds no binding that is resolved across files: every          *)
(* cross-file use (and so every error about a missing File Schema) stems   *)
(* from a binding of a relative import or re-export of the calling file.   *)
(***************************************************************************)
\* file `from` has a relative import or re-export of `name` from `file`
RelativeBinding(from, file, name) ==
  \E k \in DOMAIN Statements(from) :
    LET node == Statements(from)[k]
    IN /\ node.kind \in {"import", "export"}
       /\ node.named
       /\ node.moduleSpecifier # NoFile
       /\ IsRelative(node.moduleSpecifier)
       /\ ResolveSourceFile(from, node.moduleSpecifier) = file
       /\ \E b \in DOMAIN node.elements : BoundOrName(node.elements[b]) = name

OnlyRelativeFollowed ==
  \A i \in DOMAIN uses : RelativeBinding(uses[i][1], uses[i][2], uses[i][3])

(***************************************************************************)
(* C24: once finalize() has returned on a File Schema, use(name) for an    *)
(* import or re-export binding of it that is not yet referenced calls use  *)
(* on the origin file with the bound name, and marks the name locally only *)
(* after that call has returned; before finalize has returned, use only    *)
(* adds the name to the file's own referencedNames and makes no call to    *)
(* another File Schema.                                                    *)
(***************************************************************************)
\* the import bindings and the re-export bindings (those with a file) of f
OriginBindings(f) ==
  Flatten(schema[f].imports) \o SelectSeq(Flatten(schema[f].exports), HasFile)

\* the SchemaProgram.use calls of this step
NewUses == {uses'[i] : i \in (Len(uses) + 1)..Len(uses')}

\* the call the binding of f leads to
UseOf(f, binding) == <<f, ResolveSourceFile(f, binding.file), BoundOrName(binding)>>

\* finalize() of f is what this step runs
Finalizing(f) ==
  pc = "compile" /\ PhaseOneDone /\ finIdx <= Len(schemas) /\ schemas[finIdx] = f

UseRoutesOnceFinalized ==
  [][\A f \in Files :
       /\ finalized[f] =>
            \A name \in referencedNames'[f] \ referencedNames[f] :
              \A i \in DOMAIN OriginBindings(f) :
                (OriginBindings(f)[i].name = name /\ ~Declares(f, name))
                  => UseOf(f, OriginBindings(f)[i]) \in NewUses
       /\ (finalized[f] /\ error' = "Couldn't find schema" /\ uses'[Len(uses')][1] = f) =>
            \E i \in DOMAIN OriginBindings(f) :
              /\ UseOf(f, OriginBindings(f)[i]) = uses'[Len(uses')]
              /\ OriginBindings(f)[i].name \notin referencedNames'[f]
       /\ (~finalized[f] /\ ~Finalizing(f)) => \A u \in NewUses : u[1] # f
       /\ (~finalized[f] /\ Finalizing(f)) =>
            \A u \in NewUses :
              u[1] = f => \E i \in DOMAIN OriginBindings(f) :
                            /\ UseOf(f, OriginBindings(f)[i]) = u
                            /\ OriginBindings(f)[i].name \in referencedNames'[f]
    ]_vars

\* b was finalized before a; the use of X that a's finalize makes on b went on to c
RoutedAfterFinalize ==
  /\ schemas = <<"c", "b", "a">>
  /\ uses = <<<<"a", "b", "X">>, <<"b", "c", "X">>>>
  /\ "X" \in referencedNames["b"]
  /\ ~Declares("b", "X")
  /\ finalized["a"]

(***************************************************************************)
(* C25: when use() has marked a declaration, every type-reference or       *)
(* type-access name anywhere in the declaration's IR tree (heritages,      *)
(* array elements, object members, tuple elements and the tuple rest       *)
(* element, union and intersection alternatives, at any depth) is in       *)
(* referencedNames when the call has returned.                             *)
(***************************************************************************)
MarkedTreeReferenced ==
  error = NoError =>
    \A i \in DOMAIN expanded :
      ReferencesOf(expanded[i][1], expanded[i][2]) \subseteq referencedNames[expanded[i][1]]

(***************************************************************************)
(* C26: the referencedNames of all File Schemas after phase two are the    *)
(* same for every order in which the files were first visited and then     *)
(* finalized (the insertion order of the file map).                        *)
(***************************************************************************)
RECURSIVE VisitFile(_, _), VisitStatements(_, _, _)
\* compileSourceFile(file) with the file map holding `order`: the file map after it
VisitFile(order, file) ==
  IF ~Eligible(file) \/ file \in Range(order) THEN order
  ELSE VisitStatements(Append(order, file), file, 1)

VisitStatements(order, file, i) ==
  IF i > Len(Statements(file)) THEN order
  ELSE VisitStatements(IF FilesOf(Statements(file)[i]) = {} THEN order
                       ELSE VisitFile(order, Statements(file)[i].moduleSpecifier.path),
                       file, i + 1)

RECURSIVE VisitOrder(_, _)
\* the insertion order of the file map when compile() is given these root files
VisitOrder(order, roots) ==
  IF roots = <<>> THEN order
  ELSE VisitOrder(VisitFile(order, Head(roots)), Tail(roots))

RECURSIVE FinalizeAll(_, _)
\* compile(), second loop over the file map in the given order
FinalizeAll(st, order) ==
  IF order = <<>> \/ st.err # NoError THEN st
  ELSE FinalizeAll(The({[st1 EXCEPT !.finalized[Head(order)] = st1.err = NoError] :
                          st1 \in {FinalizeBuilder(st, Head(order))}}),
                   Tail(order))

\* the outcome of phase two had the files been given as roots in this order
PhaseTwo(roots) ==
  The({FinalizeAll([St EXCEPT !.schemas = order], order) : order \in {VisitOrder(<<>>, roots)}})

\* the root lists that name the files of this run, in every order
RootOrders == {p \in [1..Len(schemas) -> Range(schemas)] : Range(p) = Range(schemas)}

BeforeFinalize == pc = "compile" /\ PhaseOneDone /\ finIdx = 1 /\ error = NoError

FinalizeOrderIndependent ==
  BeforeFinalize =>
    \A p \in RootOrders, q \in RootOrders :
      \A one \in {PhaseTwo(p)}, other \in {PhaseTwo(q)} :
        (one.err = NoError /\ other.err = NoError)
          => one.referencedNames = other.referencedNames

(***************************************************************************)
(* C27: within one file, the set of rendered declarations does not depend  *)
(* on the textual order of the declarations: a forced declaration that     *)
(* references a declaration written later marks it and everything it       *)
(* references, as if the referenced declaration had been written first.    *)
(***************************************************************************)
\* what compileNode writes to the File Schema f for a declaration statement
WriteStatement(st, f, node) ==
  CASE node.kind = "interface" ->
         WriteInterface(st, f, [name |-> node.name, heritages |-> node.heritages,
                                members |-> node.members], GetTag(node, Schema))
    [] node.kind = "type" ->
         WriteType(st, f, [name |-> node.name, type |-> node.body], GetTag(node, Schema))
    [] node.kind = "enum" -> WriteEnum(st, f, [name |-> node.name], GetTag(node, Schema))

RECURSIVE WriteStatements(_, _, _)
WriteStatements(st, f, nodes) ==
  IF nodes = <<>> \/ st.err # NoError THEN st
  ELSE WriteStatements(The({s1 : s1 \in {WriteStatement(st, f, Head(nodes))}}), f, Tail(nodes))

\* file f holds declarations only, with different names, all of them written
PlainDeclarations(f) ==
  /\ \A i \in DOMAIN Statements(f) :
       /\ Statements(f)[i].kind \in {"interface", "type", "enum"}
       /\ Statements(f)[i].kind = "enum" \/ Outcome(Statements(f)[i]) = "write"
       /\ ~GetTag(Statements(f)[i], NoSchema)
  /\ \A i, j \in DOMAIN Statements(f) :
       Statements(f)[i].name = Statements(f)[j].name => i = j

\* the statements of f in every textual order
TextualOrders(f) ==
  {[i \in DOMAIN Statements(f) |-> Statements(f)[p[i]]] :
     p \in {q \in [DOMAIN Statements(f) -> DOMAIN Statements(f)] :
              Range(q) = DOMAIN Statements(f)}}

\* the names of the declarations of f that render() emits
RenderedNames(f, refs) == {Statements(f)[i].name : i \in DOMAIN Statements(f)} \cap refs

TextualOrderIndependent ==
  (BeforeFinalize /\ schemas = <<"a">> /\ PlainDeclarations("a")) =>
    \A nodes \in TextualOrders("a") :
      \A st \in {WriteStatements([St EXCEPT !.schema["a"] = EmptySchema,
                                            !.referencedNames["a"] = {},
                                            !.expanded = <<>>],
                                 "a", nodes)} :
        st.err = NoError =>
          RenderedNames("a", st.referencedNames["a"])
            = RenderedNames("a", referencedNames["a"])

(***************************************************************************)
(* C28: the property context used for annotation lookup is restored after  *)
(* every declaration: when the compilation of an interface or type alias   *)
(* has ended, normally or with a warned error raised while one of its      *)
(* properties was being compiled, the property stack is what it was        *)
(* before, so no later declaration reads the tags of an earlier            *)
(* declaration's property.                                                 *)
(***************************************************************************)
\* a type alias of string carries a @regex tag: the alias has no property of its own
AliasReadsPropertyTags ==
  \E i \in DOMAIN schema["a"].types :
    /\ schema["a"].types[i].type.type = "string"
    /\ "regex" \in DOMAIN schema["a"].types[i].type

PropertyContextRestored ==
  /\ \A i \in DOMAIN contexts : contexts[i].properties = <<>>
  /\ ~AliasReadsPropertyTags

(***************************************************************************)
(* C29: for a type that is not exactly null/undefined, the schema          *)
(* compileTsType returns has required = !undefineable whenever the         *)
(* sub-compiler did not set the flag itself, for every combination of the  *)
(* nullable and undefineable flags; when nullable, the returned schema is  *)
(* a union of the compiled core and an explicit null alternative.          *)
(***************************************************************************)
\* the flags compileTsType detects on the type handed to it
Nullable ==
  IF strictNullChecks THEN HasFlag(tsType, {"Union"}) /\ ContainsNull
  ELSE "nullable" \in tsType.tags
Undefineable ==
  IF strictNullChecks THEN HasFlag(tsType, {"Union"}) /\ ContainsUndefined
  ELSE "undefineable" \in tsType.tags

\* what the sub-compiler returns for the type without its markers
SubCompiled ==
  CompileNonNullableType(GetNonNullableType(tsType, strictNullChecks), ignoreRef,
                         strictNullChecks)

\* a type that is not exactly null/undefined was compiled, the sub-compiler
\* having left `required` unset
FlagLeftUnset ==
  /\ pc = "compiled"
  /\ ~HasFlag(tsType, {"Null", "Undefined"})
  /\ SubCompiled.required = "undefined"

RequiredUnlessUndefineable ==
  FlagLeftUnset =>
    /\ schemaType.required = IF Undefineable THEN "false" ELSE "true"
    /\ Nullable => /\ schemaType.type = "union"
                   /\ Len(schemaType.of) = 2
                   /\ Kind(schemaType.of[1]) = Kind(SubCompiled)
                   /\ schemaType.of[2] = Leaf("null")

(***************************************************************************)
(* C30: a File Schema is created at most once per source file and the      *)
(* statements of a file are compiled at most once per run, also when files *)
(* import or re-export each other cyclically: a file reached again while   *)
(* it is being compiled is not re-entered, the context stack is back to    *)
(* its previous depth when a file's compilation returns, phase one         *)
(* terminates, and no File Schema is added to or removed from the file map *)
(* after phase one.                                                        *)
(***************************************************************************)
\* no file twice in the file map or on the context stack, no statement compiled twice
EnteredOnce ==
  /\ \A i, j \in DOMAIN schemas : schemas[i] = schemas[j] => i = j
  /\ \A i, j \in DOMAIN contexts : contexts[i].schema = contexts[j].schema => i = j
  /\ \A i \in DOMAIN contexts : HasSchema(contexts[i].schema)
  /\ \A f \in Files : visited[f] <= (IF Exists(f) THEN Len(Statements(f)) ELSE 0)
  /\ \A f \in Files : visited[f] > 0 => HasSchema(f)

\* the files whose compilation has begun and has not returned
Compiling == {contexts[i].schema : i \in DOMAIN contexts}

\* a step of phase one either enters a file, which is then the top of the stack
\* above the unchanged stack, or returns from the top file and leaves the stack
\* below it as it was when the file was entered, or stays in the top file
StackDiscipline ==
  \/ /\ Len(contexts') = Len(contexts) + 1
     /\ \A i \in DOMAIN contexts : contexts'[i].schema = contexts[i].schema
     /\ contexts'[Len(contexts')].schema \notin Compiling
     /\ schemas' = Append(schemas, contexts'[Len(contexts')].schema)
  \/ /\ Len(contexts') = Len(contexts) - 1
     /\ contexts' = SubSeq(contexts, 1, Len(contexts) - 1)
     /\ visited[Top.schema] = Len(Statements(Top.schema))
     /\ schemas' = schemas
  \/ /\ Len(contexts') = Len(contexts)
     /\ \A i \in DOMAIN contexts : contexts'[i].schema = contexts[i].schema
     /\ schemas' = schemas

\* compile() is in its first loop
InPhaseOne == pc = "compile" /\ ~PhaseOneDone

\* the statements of f that have not been compiled
Unvisited(f) == IF Exists(f) THEN Len(Statements(f)) - visited[f] ELSE 0

\* what phase one still has to do at most: files to enter (counted twice, for
\* the entry and the return), files to return from, root files to visit and
\* statements to compile
Remaining ==
  2 * Cardinality({f \in DOMAIN input.src : ~HasSchema(f)})
  + Len(contexts)
  + (Len(input.rootFileNames) + 1 - rootIdx)
  + Unvisited("a") + Unvisited("b") + Unvisited("c") + Unvisited("gen-schema")

\* every context below the top one is at the import or re-export of the file
\* just above it: a file that returns hands the stack back as its caller left it
CallChain ==
  \A i \in 1..(Len(contexts) - 1) :
    LET at == IF contexts[i].pending THEN contexts[i].pos ELSE contexts[i].pos - 1
    IN /\ at \in DOMAIN Statements(contexts[i].schema)
       /\ contexts[i + 1].schema \in FilesOf(Statements(contexts[i].schema)[at])

\* while phase one runs, the guard of one of its handlers holds
CanStep ==
  IF contexts = <<>>
  THEN rootIdx <= Len(input.rootFileNames)
  ELSE \/ Top.pending
       \/ Top.pos > Len(Statements(Top.schema))
       \/ InStatements /\ Statement.kind \in {"enum", "interface", "type", "import",
                                              "export", "other"}

\* phase one terminates: while it runs it can take a step, and every step of it
\* makes the natural number Remaining smaller or ends the run
PhaseOneTerminates ==
  InPhaseOne => /\ CanStep
                /\ Remaining \in Nat
                /\ Remaining' \in Nat
                /\ Remaining' < Remaining \/ pc' = "aborted"

FilesCompiledOnce ==
  /\ []EnteredOnce
  /\ [](pc = "compile" => CallChain)
  /\ [][InPhaseOne => StackDiscipline]_vars
  /\ [][PhaseOneTerminates]_vars
  /\ [][(PhaseOneDone /\ pc # "main") => schemas' = schemas]_vars

\* two files that import or re-export each other have both been compiled
CyclicImportsCompiled ==
  /\ pc = "compile"
  /\ PhaseOneDone
  /\ error = NoError
  /\ \E f, g \in Range(schemas) :
       /\ f # g
       /\ \E i \in DOMAIN Statements(f) : g \in FilesOf(Statements(f)[i])
       /\ \E i \in DOMAIN Statements(g) : f \in FilesOf(Statements(g)[i])
       /\ visited[f] = Len(Statements(f))
       /\ visited[g] = Len(Statements(g))
====
